---- MODULE Spec2Model ----
(***************************************************************************)
(* Fightcraft combat core: Fighter, EffectManager and CombatSystem of      *)
(* game/combat.py and game/effects.py.                                     *)
(*                                                                         *)
(* Number representation.  Python floats are modelled as fixed-point       *)
(* integers:                                                               *)
(*   - an effect power p is held in hundredths (300 = 3.0, 50 = 0.5);      *)
(*   - an item speed s is held in tenths (10 = 1.0);                       *)
(*   - a random.random() draw r is held in hundredths (0 .. 99);           *)
(*   - a random.uniform(0.85, 1.15) draw is held in hundredths.            *)
(* int(x) of a non-negative product is the integer quotient (\div).        *)
(*                                                                         *)
(* Log messages are records [kind, who]: the kind of the f-string and the  *)
(* name it interpolates; the numbers inside a message are left out.        *)
(***************************************************************************)
EXTENDS Integers, Sequences, FiniteSets, TLC

VARIABLES player, enemy, turn, combat_log, combat_over, player_won,
          turn_order, returned, phase, manager, auto_combat,
          generating, in_flight, result_slot, equipment_slots

vars == <<player, enemy, turn, combat_log, combat_over, player_won,
          turn_order, returned, phase, manager, auto_combat,
          generating, in_flight, result_slot, equipment_slots>>

\* the state of the crafting scenes; no crafting scene exists in a battle
crafting_vars == <<generating, in_flight, result_slot, equipment_slots>>

(***************************************************************************)
(* Bounds of the model.                                                    *)
(***************************************************************************)
\* active turns explored per battle
MaxTurns == 4
\* missed attacks allowed per battle in the fair specification
MaxMisses == 1
\* add_effect / process_turn calls explored on the stand-alone manager
MaxStacks == 3
\* the largest total armor and the largest raw damage take_damage is given
MaxArmor == 160
MaxRaw == 30
\* the turns of a battle of the effect-duration harness
MaxDurationTurns == 12

Max(a, b) == IF a >= b THEN a ELSE b
Min(a, b) == IF a <= b THEN a ELSE b
Last(s) == s[Len(s)]

(***************************************************************************)
(* effects.py: EffectType                                                  *)
(***************************************************************************)
EffectType == {"fire", "lifesteal", "poison", "critical", "bleed", "freeze",
               "lightning", "reflect", "shield", "vampiric"}

\* EffectType(effect_type_str) raises ValueError outside the enum
IsEffectType(s) == s \in EffectType

DoTTypes == {"fire", "poison", "bleed"}
StackingTypes == {"bleed", "poison"}

\* effect_type.value.title()
Title(t) == CASE t = "fire" -> "Fire"
              [] t = "poison" -> "Poison"
              [] t = "bleed" -> "Bleed"
              [] OTHER -> t

Msg(k, w) == [kind |-> k, who |-> w]

(***************************************************************************)
(* effects.py: ActiveEffect                                                *)
(***************************************************************************)
ActiveEffect(effect_type, power, duration, source_name) ==
    [effect_type |-> effect_type, power |-> power, duration |-> duration,
     source_name |-> source_name, stacks |-> 1]

TickDamage_allTypes(e) == (e.power * e.stacks) \div 100

\* ActiveEffect.tick: the damage of one tick
TickDamage(e) ==
    IF e.effect_type \in DoTTypes THEN (e.power * e.stacks) \div 100 ELSE 0

\* ActiveEffect.tick: the message of one tick (<<>> stands for "")
TickMessage(e) ==
    IF e.effect_type \in DoTTypes THEN <<Msg("dot", Title(e.effect_type))>>
    ELSE <<>>

Tick_twice(e) == [e EXCEPT !.duration = @ - 2]

\* ActiveEffect.tick: the effect after one tick
Tick(e) == [e EXCEPT !.duration = @ - 1]

is_expired(e) == e.duration <= 0

(***************************************************************************)
(* effects.py: EffectManager (active_effects is a sequence)                *)
(***************************************************************************)
HasType(effects, t) == \E i \in 1..Len(effects) : effects[i].effect_type = t

FirstIndex(effects, t) ==
    CHOOSE i \in 1..Len(effects) :
        /\ effects[i].effect_type = t
        /\ \A j \in 1..(i - 1) : effects[j].effect_type # t

add_effect_buggy(effects, effect) == Append(effects, effect)

add_effect_sum(effects, effect) ==
    IF HasType(effects, effect.effect_type)
    THEN LET i == FirstIndex(effects, effect.effect_type)
             existing == effects[i]
         IN IF effect.effect_type \in StackingTypes
            THEN [effects EXCEPT ![i] =
                     [existing EXCEPT !.stacks = @ + 1,
                                      !.duration = Max(@, effect.duration)]]
            ELSE [effects EXCEPT ![i] =
                     [existing EXCEPT !.duration = @ + effect.duration]]
    ELSE Append(effects, effect)

add_effect_newPower(effects, effect) ==
    IF HasType(effects, effect.effect_type)
    THEN LET i == FirstIndex(effects, effect.effect_type)
             existing == effects[i]
         IN IF effect.effect_type \in StackingTypes
            THEN [effects EXCEPT ![i] =
                     [existing EXCEPT !.stacks = @ + 1,
                                      !.power = effect.power,
                                      !.duration = Max(@, effect.duration)]]
            ELSE [effects EXCEPT ![i] =
                     [existing EXCEPT !.power = effect.power,
                                      !.duration = Max(@, effect.duration)]]
    ELSE Append(effects, effect)

add_effect(effects, effect) ==
    IF HasType(effects, effect.effect_type)
    THEN LET i == FirstIndex(effects, effect.effect_type)
             existing == effects[i]
         IN IF effect.effect_type \in StackingTypes
            THEN [effects EXCEPT ![i] =
                     [existing EXCEPT !.stacks = @ + 1,
                                      !.duration = Max(@, effect.duration)]]
            ELSE [effects EXCEPT ![i] =
                     [existing EXCEPT !.duration = Max(@, effect.duration)]]
    ELSE Append(effects, effect)

RECURSIVE SumDamage(_)
SumDamage(effects) ==
    IF effects = <<>> THEN 0
    ELSE TickDamage(Head(effects)) + SumDamage(Tail(effects))

RECURSIVE TickMessages(_)
TickMessages(effects) ==
    IF effects = <<>> THEN <<>>
    ELSE TickMessage(Head(effects)) \o TickMessages(Tail(effects))

TickAll(effects) == [i \in 1..Len(effects) |-> Tick(effects[i])]

NotExpired(e) == ~is_expired(e)

process_turn_keepsExpired(effects) ==
    [damage   |-> SumDamage(effects),
     messages |-> TickMessages(effects),
     effects  |-> TickAll(effects)]

\* EffectManager.process_turn: (total_damage, messages) and the effects kept
process_turn(effects) ==
    [damage   |-> SumDamage(effects),
     messages |-> TickMessages(effects),
     effects  |-> SelectSeq(TickAll(effects), NotExpired)]

has_effect(effects, t) == HasType(effects, t)

get_effect_power(effects, t) ==
    IF HasType(effects, t) THEN effects[FirstIndex(effects, t)].power ELSE 0

\* the speed_multiplier of get_stat_modifiers as a fraction [num, den]
RECURSIVE SpeedMultiplier(_)
SpeedMultiplier(effects) ==
    IF effects = <<>> THEN [num |-> 1, den |-> 1]
    ELSE LET rest == SpeedMultiplier(Tail(effects))
         IN IF Head(effects).effect_type = "freeze"
            THEN [num |-> rest.num * (100 - Head(effects).power),
                  den |-> rest.den * 100]
            ELSE rest

\* the armor_bonus of get_stat_modifiers: the sum of int(effect.power)
RECURSIVE ArmorBonus(_)
ArmorBonus(effects) ==
    IF effects = <<>> THEN 0
    ELSE (IF Head(effects).effect_type = "shield"
          THEN Head(effects).power \div 100 ELSE 0)
             + ArmorBonus(Tail(effects))

\* EffectManager.get_stat_modifiers (damage_multiplier and
\* damage_reduction are never changed from 1.0 and 0.0)
get_stat_modifiers(effects) ==
    [speed_multiplier |-> SpeedMultiplier(effects),
     armor_bonus |-> ArmorBonus(effects)]

(***************************************************************************)
(* item.py: ItemStats (an absent item is a record with present = FALSE)    *)
(***************************************************************************)
ItemStats(damage, armor, speed, health, effect_type, effect_power) ==
    [present |-> TRUE, damage |-> damage, armor |-> armor, speed |-> speed,
     health |-> health, effect_type |-> effect_type,
     effect_power |-> effect_power]

NoItem ==
    [present |-> FALSE, damage |-> 0, armor |-> 0, speed |-> 10,
     health |-> 0, effect_type |-> "", effect_power |-> 0]

(***************************************************************************)
(* combat.py: Fighter                                                      *)
(***************************************************************************)
Fighter(name, max_health) ==
    [name |-> name, max_health |-> max_health, current_health |-> max_health,
     weapon |-> NoItem, armor |-> NoItem, concoction |-> NoItem,
     base_damage |-> 5, base_armor |-> 0, base_speed |-> 10,
     effects |-> <<>>]

ConcoctionHealth_nocap(max_health, health) == max_health + health

\* the health equip_items gives a fighter with a concoction
ConcoctionHealth(max_health, health) ==
    Min(max_health + health, max_health + 50)

equip_items(f, weapon, armor, concoction) ==
    LET g == [f EXCEPT !.weapon = weapon, !.armor = armor,
                       !.concoction = concoction]
    IN IF concoction.present
       THEN [g EXCEPT !.current_health =
                          ConcoctionHealth(f.max_health, concoction.health)]
       ELSE g

get_total_damage(f) ==
    IF f.weapon.present THEN f.base_damage + f.weapon.damage
    ELSE f.base_damage

get_total_armor(f) ==
    IF f.armor.present THEN f.base_armor + f.armor.armor ELSE f.base_armor

\* in units of 1/10000: base_speed and each multiplier are in tenths
get_total_speed(f) ==
    f.base_speed
      * (IF f.weapon.present THEN f.weapon.speed ELSE 10)
      * (IF f.armor.present THEN f.armor.speed ELSE 10)
      * (IF f.concoction.present THEN f.concoction.speed ELSE 10)

(***************************************************************************)
(* The float expression of take_damage.  armor / 200.0, 1 - reduction and  *)
(* damage * (..) are IEEE-754 double operations: each result is the exact  *)
(* value rounded to 53 significant bits, ties to even.  A double is held   *)
(* as [m, e]: m the significant bits, most significant first, without      *)
(* leading zeros (<<>> is 0.0), and e the exponent of the last bit, so the *)
(* value is m * 2^e.                                                       *)
(***************************************************************************)
Front(b) == SubSeq(b, 1, Len(b) - 1)

RECURSIVE Pow2(_)
Pow2(k) == IF k = 0 THEN 1 ELSE 2 * Pow2(k - 1)

\* the bits of an integer 0 <= n < 2^31, and back
RECURSIVE IntToBits(_)
IntToBits(n) == IF n = 0 THEN <<>> ELSE IntToBits(n \div 2) \o <<n % 2>>

RECURSIVE BitsToInt(_)
BitsToInt(b) == IF b = <<>> THEN 0 ELSE 2 * BitsToInt(Front(b)) + Last(b)

\* b with zeros in front, n bits long
Pad(b, n) == [i \in 1..(n - Len(b)) |-> 0] \o b

StripZeros(b) ==
    IF \A i \in 1..Len(b) : b[i] = 0 THEN <<>>
    ELSE LET first == CHOOSE i \in 1..Len(b) :
                          b[i] = 1 /\ \A j \in 1..(i - 1) : b[j] = 0
         IN SubSeq(b, first, Len(b))

\* b + 1 (one bit longer when b is all ones)
Inc(b) ==
    IF \A i \in 1..Len(b) : b[i] = 1 THEN <<1>> \o [i \in 1..Len(b) |-> 0]
    ELSE LET last0 == CHOOSE i \in 1..Len(b) :
                          b[i] = 0 /\ \A j \in (i + 1)..Len(b) : b[j] = 1
         IN [i \in 1..Len(b) |->
                IF i < last0 THEN b[i] ELSE IF i = last0 THEN 1 ELSE 0]

\* the first 16 * chunks bits of the binary fraction rem / den (rem < den),
\* sixteen at a time, and the remainder left after them
RECURSIVE FracBits(_, _, _)
FracBits(rem, den, chunks) ==
    IF chunks = 0 THEN [bits |-> <<>>, rem |-> rem]
    ELSE LET t == rem * 65536
             rest == FracBits(t % den, den, chunks - 1)
         IN [bits |-> Pad(IntToBits(t \div den), 16) \o rest.bits,
             rem |-> rest.rem]

\* b * d + carry for a small integer d, sixteen bits of b at a time
RECURSIVE MulSmall(_, _, _)
MulSmall(b, d, carry) ==
    IF b = <<>> THEN IntToBits(carry)
    ELSE LET k == Min(16, Len(b))
             t == BitsToInt(SubSeq(b, Len(b) - k + 1, Len(b))) * d + carry
         IN MulSmall(SubSeq(b, 1, Len(b) - k), d, t \div Pow2(k))
                \o Pad(IntToBits(t % Pow2(k)), k)

\* the double nearest to bits * 2^e (+ something below the last bit when
\* sticky), ties to even
RoundToDouble(bits, e, sticky) ==
    LET b == StripZeros(bits)
        n == Len(b)
    IN IF n <= 53 THEN [m |-> b, e |-> e]
       ELSE LET kept == SubSeq(b, 1, 53)
                guard == b[54]
                rest == sticky \/ \E i \in 55..n : b[i] = 1
                up == guard = 1 /\ (rest \/ kept[53] = 1)
                m == IF up THEN Inc(kept) ELSE kept
            IN IF Len(m) = 54 THEN [m |-> Front(m), e |-> e + (n - 53) + 1]
               ELSE [m |-> m, e |-> e + (n - 53)]

\* a / den for integers a >= 0, den > 0
FloatDiv(a, den) ==
    LET frac == FracBits(a % den, den, 4)
    IN RoundToDouble(IntToBits(a \div den) \o frac.bits, -64, frac.rem # 0)

\* 1 - x for a double 0 <= x < 1
FloatOneMinus(x) ==
    IF x.m = <<>> THEN [m |-> <<1>>, e |-> 0]
    ELSE LET width == -x.e
             padded == [i \in 1..(width - Len(x.m)) |-> 0] \o x.m
             flipped == [i \in 1..width |-> 1 - padded[i]]
         IN RoundToDouble(Inc(flipped), x.e, FALSE)

\* damage * x for an integer damage >= 0
FloatMulInt(damage, x) == RoundToDouble(MulSmall(x.m, damage, 0), x.e, FALSE)

\* int(x) for a double x >= 0
FloatToInt(x) ==
    IF x.e >= 0 THEN BitsToInt(x.m \o [i \in 1..x.e |-> 0])
    ELSE IF Len(x.m) <= -x.e THEN 0
    ELSE BitsToInt(SubSeq(x.m, 1, Len(x.m) + x.e))

\* min(armor / 200.0, 0.75): the quotient is below 0.75 exactly when
\* armor < 150
DamageReduction(armor) ==
    IF armor >= 150 THEN [m |-> <<1, 1>>, e |-> -2] ELSE FloatDiv(armor, 200)

\* int(damage * (1 - min(armor / 200.0, 0.75))), evaluated once for every
\* armor and damage of the model
ActualDamageOf ==
    [armor \in 0..MaxArmor, damage \in 0..MaxRaw |->
        FloatToInt(FloatMulInt(damage,
                               FloatOneMinus(DamageReduction(armor))))]

ActualDamage(armor, damage) == ActualDamageOf[armor, damage]

\* floor(damage * (1 - min(armor/200, 0.75))) over the rationals
ExactFloor(armor, damage) ==
    IF armor >= 150 THEN (damage * 25) \div 100
    ELSE (damage * (200 - armor)) \div 200

take_damage_notStored(f, damage) ==
    [fighter |-> f, actual |-> ActualDamage(get_total_armor(f), damage)]

take_damage_nofloor(f, damage) ==
    LET actual == ActualDamage(get_total_armor(f), damage)
    IN [fighter |-> [f EXCEPT !.current_health = @ - actual],
        actual  |-> actual]

\* Fighter.take_damage: the fighter afterwards and the value returned
take_damage(f, damage) ==
    LET actual == ActualDamage(get_total_armor(f), damage)
    IN [fighter |-> [f EXCEPT !.current_health = Max(0, @ - actual)],
        actual  |-> actual]

is_alive(f) == f.current_health > 0

(***************************************************************************)
(* combat.py: CombatSystem                                                 *)
(***************************************************************************)
determine_turn_order_swapped(p, e) ==
    IF get_total_speed(p) >= get_total_speed(e)
    THEN <<"enemy", "player">>
    ELSE <<"player", "enemy">>

\* CombatSystem._determine_turn_order (fighters are named by their role)
determine_turn_order(p, e) ==
    IF get_total_speed(p) >= get_total_speed(e)
    THEN <<"player", "enemy">>
    ELSE <<"enemy", "player">>

\* the heal of the LIFESTEAL and VAMPIRIC branches
Heal(f, amount) ==
    [f EXCEPT !.current_health = Min(f.max_health, @ + amount)]

LightningStrike_unmitigated(defender, power) ==
    [fighter |-> [defender EXCEPT !.current_health =
                     Max(0, @ - power \div 100)],
     actual  |-> power \div 100]

\* the LIGHTNING branch: "bonus_damage = int(effect_power)",
\* "actual_bonus = defender.take_damage(bonus_damage)"
LightningStrike(defender, power) == take_damage(defender, power \div 100)

apply_weapon_effect_lastBranch(attacker, defender, damage, r_flavor) ==
    LET t == attacker.weapon.effect_type
        power == attacker.weapon.effect_power
        same == [attacker |-> attacker, defender |-> defender,
                 messages |-> <<>>]
        Added(duration, kind) ==
            [attacker |-> attacker,
             defender |-> [defender EXCEPT !.effects =
                 add_effect(@, ActiveEffect(t, power, duration,
                                            attacker.name))],
             messages |-> <<Msg(kind, defender.name)>>]
    IN IF ~attacker.weapon.present \/ t = "" THEN same
       ELSE IF ~IsEffectType(t)
       THEN [same EXCEPT !.messages = <<Msg("shield", "")>>]
       ELSE CASE t = "fire" -> Added(3, "burning")
              [] t = "poison" -> Added(5, "poisoned")
              [] t = "bleed" -> Added(4, "bleeding")
              [] t = "lifesteal" ->
                   [attacker |-> Heal(attacker, (damage * power) \div 100),
                    defender |-> defender,
                    messages |-> <<Msg("steals", attacker.name)>>]
              [] t = "vampiric" ->
                   [attacker |-> Heal(attacker, (damage * power) \div 100),
                    defender |-> defender,
                    messages |-> <<Msg("drains", attacker.name)>>]
              [] t = "critical" ->
                   IF r_flavor < power
                   THEN [same EXCEPT !.messages = <<Msg("devastating", "")>>]
                   ELSE same
              [] t = "lightning" ->
                   LET hit == LightningStrike(defender, power)
                   IN [attacker |-> attacker, defender |-> hit.fighter,
                       messages |-> <<Msg("lightning", "")>>]
              [] t = "freeze" -> Added(2, "slowed")
              [] t = "reflect" ->
                   IF defender.armor.present
                      /\ defender.armor.effect_type = "reflect"
                   THEN LET reflect_damage ==
                                (damage * defender.armor.effect_power) \div 100
                        IN [attacker |-> [attacker EXCEPT !.current_health =
                                             Max(0, @ - reflect_damage)],
                            defender |-> defender,
                            messages |-> <<Msg("thorns", attacker.name)>>]
                   ELSE same
              [] t = "shield" ->
                   [same EXCEPT !.messages = <<Msg("shield", "")>>]

\* the weapon effects with a SHIELD branch that adds the effect
apply_weapon_effect_shieldAdded(attacker, defender, damage, r_flavor) ==
    LET t == attacker.weapon.effect_type
        power == attacker.weapon.effect_power
        same == [attacker |-> attacker, defender |-> defender,
                 messages |-> <<>>]
        Added(duration, kind) ==
            [attacker |-> attacker,
             defender |-> [defender EXCEPT !.effects =
                 add_effect(@, ActiveEffect(t, power, duration,
                                            attacker.name))],
             messages |-> <<Msg(kind, defender.name)>>]
    IN IF ~attacker.weapon.present \/ t = "" THEN same
       ELSE IF ~IsEffectType(t) THEN same
       ELSE CASE t = "fire" -> Added(3, "burning")
              [] t = "poison" -> Added(5, "poisoned")
              [] t = "bleed" -> Added(4, "bleeding")
              [] t = "lifesteal" ->
                   [attacker |-> Heal(attacker, (damage * power) \div 100),
                    defender |-> defender,
                    messages |-> <<Msg("steals", attacker.name)>>]
              [] t = "vampiric" ->
                   [attacker |-> Heal(attacker, (damage * power) \div 100),
                    defender |-> defender,
                    messages |-> <<Msg("drains", attacker.name)>>]
              [] t = "critical" ->
                   IF r_flavor < power
                   THEN [same EXCEPT !.messages = <<Msg("devastating", "")>>]
                   ELSE same
              [] t = "lightning" ->
                   LET hit == LightningStrike(defender, power)
                   IN [attacker |-> attacker, defender |-> hit.fighter,
                       messages |-> <<Msg("lightning", "")>>]
              [] t = "freeze" -> Added(2, "slowed")
              [] t = "reflect" ->
                   IF defender.armor.present
                      /\ defender.armor.effect_type = "reflect"
                   THEN LET reflect_damage ==
                                (damage * defender.armor.effect_power) \div 100
                        IN [attacker |-> [attacker EXCEPT !.current_health =
                                             Max(0, @ - reflect_damage)],
                            defender |-> defender,
                            messages |-> <<Msg("thorns", attacker.name)>>]
                   ELSE same
              [] t = "shield" ->
                   [attacker |-> [attacker EXCEPT !.effects =
                        add_effect(@, ActiveEffect(t, power, 3,
                                                   attacker.name))],
                    defender |-> defender,
                    messages |-> <<Msg("shield", "")>>]

\* CombatSystem._apply_weapon_effect; r_flavor is the draw of the CRITICAL
\* branch.  Returns the two fighters afterwards and the messages.
apply_weapon_effect(attacker, defender, damage, r_flavor) ==
    LET t == attacker.weapon.effect_type
        power == attacker.weapon.effect_power
        same == [attacker |-> attacker, defender |-> defender,
                 messages |-> <<>>]
        Added(duration, kind) ==
            [attacker |-> attacker,
             defender |-> [defender EXCEPT !.effects =
                 add_effect(@, ActiveEffect(t, power, duration,
                                            attacker.name))],
             messages |-> <<Msg(kind, defender.name)>>]
    IN IF ~attacker.weapon.present \/ t = "" THEN same
       ELSE IF ~IsEffectType(t) THEN same
       ELSE CASE t = "fire" -> Added(3, "burning")
              [] t = "poison" -> Added(5, "poisoned")
              [] t = "bleed" -> Added(4, "bleeding")
              [] t = "lifesteal" ->
                   [attacker |-> Heal(attacker, (damage * power) \div 100),
                    defender |-> defender,
                    messages |-> <<Msg("steals", attacker.name)>>]
              [] t = "vampiric" ->
                   [attacker |-> Heal(attacker, (damage * power) \div 100),
                    defender |-> defender,
                    messages |-> <<Msg("drains", attacker.name)>>]
              [] t = "critical" ->
                   IF r_flavor < power
                   THEN [same EXCEPT !.messages = <<Msg("devastating", "")>>]
                   ELSE same
              [] t = "lightning" ->
                   LET hit == LightningStrike(defender, power)
                   IN [attacker |-> attacker, defender |-> hit.fighter,
                       messages |-> <<Msg("lightning", "")>>]
              [] t = "freeze" -> Added(2, "slowed")
              [] t = "reflect" ->
                   IF defender.armor.present
                      /\ defender.armor.effect_type = "reflect"
                   THEN LET reflect_damage ==
                                (damage * defender.armor.effect_power) \div 100
                        IN [attacker |-> [attacker EXCEPT !.current_health =
                                             Max(0, @ - reflect_damage)],
                            defender |-> defender,
                            messages |-> <<Msg("thorns", attacker.name)>>]
                   ELSE same
              [] t = "shield" ->
                   [same EXCEPT !.messages = <<Msg("shield", "")>>]

AttackerSpeed_nofreeze(attacker) == get_total_speed(attacker) * 100

\* attacker_speed of execute_turn ("Apply freeze effect modifier"), in
\* units of 1/1000000
AttackerSpeed(attacker) ==
    IF has_effect(attacker.effects, "freeze")
    THEN get_total_speed(attacker)
             * (100 - get_effect_power(attacker.effects, "freeze"))
    ELSE get_total_speed(attacker) * 100

HitChance_unclamped(attacker) ==
    80000000 + (AttackerSpeed(attacker) - 1000000) * 15

\* hit_chance of execute_turn, in units of 1/100000000
HitChance(attacker) ==
    LET hit_chance == 80000000 + (AttackerSpeed(attacker) - 1000000) * 15
    IN Max(70000000, Min(95000000, hit_chance))

DotDeath_wrongWinner(att_id, p, e) ==
    LET won == (att_id = "player")
        attacker == IF att_id = "player" THEN p ELSE e
    IN [player_won |-> won,
        messages |-> <<Msg("succumbs", attacker.name),
                       Msg("wins", IF won THEN p.name ELSE e.name)>>]

DotDeath_winsFirst(att_id, p, e) ==
    LET won == (att_id = "enemy")
        attacker == IF att_id = "player" THEN p ELSE e
    IN [player_won |-> won,
        messages |-> <<Msg("wins", IF won THEN p.name ELSE e.name),
                       Msg("succumbs", attacker.name)>>]

\* the winner message and player_won when the DoT killed the attacker
DotDeath(att_id, p, e) ==
    LET won == (att_id = "enemy")
        attacker == IF att_id = "player" THEN p ELSE e
    IN [player_won |-> won,
        messages |-> <<Msg("succumbs", attacker.name),
                       Msg("wins", IF won THEN p.name ELSE e.name)>>]

TerminalCheck_playerOnly(p, e) ==
    IF ~is_alive(p)
    THEN [over |-> TRUE, player_won |-> FALSE,
          messages |-> <<Msg("wins", e.name)>>]
    ELSE [over |-> FALSE, player_won |-> FALSE, messages |-> <<>>]

TerminalCheck_wonFlipped(p, e) ==
    IF ~is_alive(p)
    THEN [over |-> TRUE, player_won |-> TRUE,
          messages |-> <<Msg("wins", e.name)>>]
    ELSE IF ~is_alive(e)
    THEN [over |-> TRUE, player_won |-> FALSE,
          messages |-> <<Msg("wins", p.name)>>]
    ELSE [over |-> FALSE, player_won |-> FALSE, messages |-> <<>>]

TerminalCheck_enemyFirst(p, e) ==
    IF ~is_alive(e)
    THEN [over |-> TRUE, player_won |-> TRUE,
          messages |-> <<Msg("wins", p.name)>>]
    ELSE IF ~is_alive(p)
    THEN [over |-> TRUE, player_won |-> FALSE,
          messages |-> <<Msg("wins", e.name)>>]
    ELSE [over |-> FALSE, player_won |-> FALSE, messages |-> <<>>]

\* "Check if combat is over" of execute_turn; player_won is read only
\* where over is TRUE
TerminalCheck(p, e) ==
    IF ~is_alive(p)
    THEN [over |-> TRUE, player_won |-> FALSE,
          messages |-> <<Msg("wins", e.name)>>]
    ELSE IF ~is_alive(e)
    THEN [over |-> TRUE, player_won |-> TRUE,
          messages |-> <<Msg("wins", p.name)>>]
    ELSE [over |-> FALSE, player_won |-> FALSE, messages |-> <<>>]

\* "Check for critical hit from weapon effect"
IsCritical(attacker, r_crit) ==
    /\ attacker.weapon.present
    /\ attacker.weapon.effect_type = "critical"
    /\ r_crit < attacker.weapon.effect_power

\* the damage of a hit: total damage, critical multiplier, variance
HitDamage(attacker, r_crit, variance) ==
    LET base == get_total_damage(attacker)
        crit == IF IsCritical(attacker, r_crit) THEN (base * 3) \div 2
                ELSE base
    IN (crit * variance) \div 100

Reflects(defender) ==
    defender.armor.present /\ defender.armor.effect_type = "reflect"

\* int(damage * defender.armor.stats.effect_power)
ReflectDamage(defender, damage) ==
    (damage * defender.armor.effect_power) \div 100

EffectChance_alwaysRolls(w) == 30

\* effect_chance of execute_turn, in hundredths: "30% chance or always for
\* some effects"
EffectChance(w) ==
    IF w.present /\ w.effect_type \in {"lifesteal", "vampiric"}
    THEN 100 ELSE 30

\* the attack phase with the reflect damage computed from what the
\* defender lost
HitPhase_reflectsActual(attacker, defender, r_crit, variance, r_effect, r_flavor) ==
    LET w == attacker.weapon
        damage == HitDamage(attacker, r_crit, variance)
        hit == take_damage(defender, damage)
        att1 == IF defender.armor.present
                   /\ defender.armor.effect_type = "reflect"
                THEN [attacker EXCEPT !.current_health =
                         Max(0, @ - (hit.actual * defender.armor.effect_power)
                                       \div 100)]
                ELSE attacker
        reflect_messages ==
            IF defender.armor.present /\ defender.armor.effect_type = "reflect"
            THEN <<Msg("reflect", attacker.name)>>
            ELSE <<>>
        attack_msg == Msg(IF /\ w.present
                             /\ w.effect_type = "critical"
                             /\ r_crit < w.effect_power
                          THEN "attack_critical" ELSE "attack",
                          attacker.name)
        effect_chance == EffectChance(w)
        eff == IF w.present /\ w.effect_type # "" /\ r_effect < effect_chance
               THEN apply_weapon_effect(att1, hit.fighter, hit.actual,
                                        r_flavor)
               ELSE [attacker |-> att1, defender |-> hit.fighter,
                     messages |-> <<>>]
    IN [eff EXCEPT !.messages = <<attack_msg>> \o reflect_messages \o @]

\* the attack phase with the reflect message logged when it is produced
HitPhase_reflectLoggedFirst(attacker, defender, r_crit, variance, r_effect, r_flavor) ==
    LET w == attacker.weapon
        damage == HitDamage(attacker, r_crit, variance)
        att1 == IF Reflects(defender)
                THEN [attacker EXCEPT !.current_health =
                         Max(0, @ - ReflectDamage(defender, damage))]
                ELSE attacker
        reflect_messages ==
            IF Reflects(defender) THEN <<Msg("reflect", attacker.name)>>
            ELSE <<>>
        hit == take_damage(defender, damage)
        attack_msg == Msg(IF IsCritical(attacker, r_crit)
                          THEN "attack_critical" ELSE "attack",
                          attacker.name)
        effect_chance == EffectChance(w)
        eff == IF w.present /\ w.effect_type # "" /\ r_effect < effect_chance
               THEN apply_weapon_effect(att1, hit.fighter, hit.actual,
                                        r_flavor)
               ELSE [attacker |-> att1, defender |-> hit.fighter,
                     messages |-> <<>>]
    IN [eff EXCEPT !.messages = reflect_messages \o <<attack_msg>> \o @]

\* the attack phase of execute_turn on a hit: critical, variance, reflect,
\* take_damage, weapon effect
HitPhase(attacker, defender, r_crit, variance, r_effect, r_flavor) ==
    LET w == attacker.weapon
        damage == HitDamage(attacker, r_crit, variance)
        att1 == IF Reflects(defender)
                THEN [attacker EXCEPT !.current_health =
                         Max(0, @ - ReflectDamage(defender, damage))]
                ELSE attacker
        reflect_messages ==
            IF Reflects(defender) THEN <<Msg("reflect", attacker.name)>>
            ELSE <<>>
        hit == take_damage(defender, damage)
        attack_msg == Msg(IF IsCritical(attacker, r_crit)
                          THEN "attack_critical" ELSE "attack",
                          attacker.name)
        effect_chance == EffectChance(w)
        eff == IF w.present /\ w.effect_type # "" /\ r_effect < effect_chance
               THEN apply_weapon_effect(att1, hit.fighter, hit.actual,
                                        r_flavor)
               ELSE [attacker |-> att1, defender |-> hit.fighter,
                     messages |-> <<>>]
    IN [eff EXCEPT !.messages = <<attack_msg>> \o reflect_messages \o @]

(***************************************************************************)
(* Inputs: the items, fighters and random draws explored                   *)
(***************************************************************************)
EffectItem(t, power) == ItemStats(0, 0, 10, 0, t, power)

PlainWeapon == ItemStats(3, 0, 12, 0, "", 0)
PlainArmor == ItemStats(0, 40, 8, 0, "", 0)
ReflectArmor == EffectItem("reflect", 80)
Concoction == ItemStats(0, 0, 10, 60, "", 0)

LightningBlade == ItemStats(1, 0, 10, 0, "lightning", 300)

PlayerWeapons ==
    {NoItem, PlainWeapon,
     EffectItem("fire", 300), EffectItem("bleed", 250),
     EffectItem("lifesteal", 50), EffectItem("vampiric", 100),
     EffectItem("freeze", 30),
     EffectItem("critical", 50), LightningBlade,
     EffectItem("reflect", 50), EffectItem("shield", 4000),
     EffectItem("poison", 50),
     EffectItem("curse", 300)}

\* <<weapon, armor, concoction>> passed to equip_items
PlayerLoadouts ==
    {<<w, NoItem, NoItem>> : w \in PlayerWeapons}
      \cup {<<w, ReflectArmor, NoItem>> :
                w \in {NoItem, EffectItem("lifesteal", 50)}}
      \cup {<<w, NoItem, Concoction>> :
                w \in {NoItem, EffectItem("lifesteal", 50)}}
      \cup {<<NoItem, PlainArmor, Concoction>>}
      \cup {<<w, PlainArmor, NoItem>> :
                w \in {NoItem, EffectItem("freeze", 30)}}

EnemyLoadouts ==
    {<<NoItem, NoItem, NoItem>>,
     <<EffectItem("bleed", 250), NoItem, NoItem>>,
     <<NoItem, ReflectArmor, NoItem>>,
     <<EffectItem("bleed", 250), ReflectArmor, NoItem>>}

PlayerHealths == {8}
EnemyHealths == {7}
EnemyBaseDamages == {8}
EnemyBaseArmors == {20}

\* random.random() draws, in hundredths
Rolls == {0, 30, 78, 99}
\* random.uniform(0.85, 1.15) draws, in hundredths
Variances == {85, 100, 114}

F(id) == IF id = "player" THEN player ELSE enemy
Other(id) == IF id = "player" THEN "enemy" ELSE "player"

(***************************************************************************)
(* Construction: scenes.py CombatScene.__init__                            *)
(***************************************************************************)
NoCombat ==
    /\ turn = 0
    /\ combat_log = <<>>
    /\ combat_over = FALSE
    /\ player_won = FALSE
    /\ turn_order = <<"player", "enemy">>
    /\ returned = <<>>

\* the two Fighter(...) constructions
Init ==
    /\ phase = "created"
    /\ \E hp \in PlayerHealths : player = Fighter("Player", hp)
    /\ \E he \in EnemyHealths : enemy = Fighter("Enemy", he)
    /\ NoCombat
    /\ manager = <<>>
    /\ auto_combat = FALSE
    /\ generating = <<>> /\ in_flight = <<>>
    /\ result_slot = <<>> /\ equipment_slots = <<>>

\* player.equip_items(weapon, armor, concoction), called once
EquipPlayer ==
    /\ phase = "created"
    /\ phase' = "player_equipped"
    /\ \E l \in PlayerLoadouts :
           player' = equip_items(player, l[1], l[2], l[3])
    /\ UNCHANGED <<enemy, turn, combat_log, combat_over, player_won,
                   turn_order, returned, manager,
                   auto_combat, generating, in_flight, result_slot,
                   equipment_slots>>

\* enemy.equip_items(weapon, armor, concoction), called once (three absent
\* items leave the enemy as constructed)
EquipEnemy ==
    /\ phase = "player_equipped"
    /\ phase' = "enemy_equipped"
    /\ \E l \in EnemyLoadouts :
           enemy' = equip_items(enemy, l[1], l[2], l[3])
    /\ UNCHANGED <<player, turn, combat_log, combat_over, player_won,
                   turn_order, returned, manager,
                   auto_combat, generating, in_flight, result_slot,
                   equipment_slots>>

\* "self.enemy.base_damage = 25", "self.enemy.base_armor = 20"
SetEnemyStats ==
    /\ phase = "enemy_equipped"
    /\ phase' = "enemy_set"
    /\ \E d \in EnemyBaseDamages, a \in EnemyBaseArmors :
           enemy' = [enemy EXCEPT !.base_damage = d, !.base_armor = a]
    /\ UNCHANGED <<player, turn, combat_log, combat_over, player_won,
                   turn_order, returned, manager,
                   auto_combat, generating, in_flight, result_slot,
                   equipment_slots>>

\* CombatSystem.__init__
StartCombat ==
    /\ phase \in {"enemy_equipped", "enemy_set"}
    /\ phase' = "battle"
    /\ turn' = 0
    /\ combat_log' = <<>>
    /\ combat_over' = FALSE
    /\ player_won' = FALSE
    /\ turn_order' = determine_turn_order(player, enemy)
    /\ UNCHANGED <<player, enemy, returned, manager,
                   auto_combat, generating, in_flight, result_slot,
                   equipment_slots>>

(***************************************************************************)
(* CombatSystem.execute_turn                                               *)
(***************************************************************************)
\* the attacker of the coming turn, and the attacker once its effects have
\* been processed ("Process DoT effects at start of attacker's turn")
AttackerId == turn_order[(turn % 2) + 1]
Attacker == F(AttackerId)
Defender == F(Other(AttackerId))

AfterDoT(attacker) ==
    LET pt == process_turn(attacker.effects)
        ticked == [attacker EXCEPT !.effects = pt.effects]
    IN IF pt.damage > 0
       THEN [ticked EXCEPT !.current_health = Max(0, @ - pt.damage)]
       ELSE ticked

\* "if random.random() < hit_chance"
IsHit(attacker, r_hit) == r_hit * 1000000 < HitChance(attacker)

AttackPhase_missReflects(attacker, defender, r_hit, r_crit, variance, r_effect, r_flavor) ==
    IF IsHit(attacker, r_hit)
    THEN HitPhase(attacker, defender, r_crit, variance, r_effect, r_flavor)
    ELSE [attacker |-> IF Reflects(defender)
                       THEN [attacker EXCEPT !.current_health =
                                Max(0, @ - ReflectDamage(defender,
                                           get_total_damage(attacker)))]
                       ELSE attacker,
          defender |-> defender,
          messages |-> <<Msg("miss", attacker.name)>>]

\* the attack phase of execute_turn: a hit or a miss
AttackPhase(attacker, defender, r_hit, r_crit, variance, r_effect, r_flavor) ==
    IF IsHit(attacker, r_hit)
    THEN HitPhase(attacker, defender, r_crit, variance, r_effect, r_flavor)
    ELSE [attacker |-> attacker, defender |-> defender,
          messages |-> <<Msg("miss", attacker.name)>>]

\* the fighter in the player (enemy) role among attacker a and defender d
Pl(a, d) == IF AttackerId = "player" THEN a ELSE d
En(a, d) == IF AttackerId = "player" THEN d ELSE a

EndTurn_missKeepsTurn(p, e, over, won, messages) ==
    /\ player' = p
    /\ enemy' = e
    /\ combat_over' = over
    /\ player_won' = won
    /\ combat_log' = combat_log \o messages
    /\ turn' = IF \E i \in 1..Len(messages) : messages[i].kind = "miss"
               THEN turn ELSE turn + 1
    /\ returned' = messages

EndTurn_returnsLog(p, e, over, won, messages) ==
    /\ player' = p
    /\ enemy' = e
    /\ combat_over' = over
    /\ player_won' = won
    /\ combat_log' = combat_log \o messages
    /\ turn' = turn + 1
    /\ returned' = combat_log \o messages

\* what a turn leaves behind: "self.combat_log.extend(messages)",
\* "self.turn += 1", "return messages"
EndTurn(p, e, over, won, messages) ==
    /\ player' = p
    /\ enemy' = e
    /\ combat_over' = over
    /\ player_won' = won
    /\ combat_log' = combat_log \o messages
    /\ turn' = turn + 1
    /\ returned' = messages

\* the draws an active turn can read: random.random() is called for the
\* critical roll and the flavor roll only with a "critical" weapon, and for
\* the effect roll only with a weapon that has an effect type
CritRolls ==
    IF Attacker.weapon.present /\ Attacker.weapon.effect_type = "critical"
    THEN Rolls ELSE {0}

EffectRolls ==
    IF Attacker.weapon.present /\ Attacker.weapon.effect_type # ""
    THEN Rolls ELSE {0}

TurnRefused_never(over) == FALSE

\* the guard "if self.combat_over: return []"
TurnRefused(over) == over

\* one active turn of execute_turn with the given draws; \E over a
\* one-element set names an intermediate value of the method
TurnStep(r_hit, r_crit, variance, r_effect, r_flavor) ==
    \E pt \in {process_turn(Attacker.effects)},
       att1 \in {AfterDoT(Attacker)} :
        LET dot_messages == IF pt.damage > 0 THEN pt.messages ELSE <<>>
        IN IF pt.damage > 0 /\ ~is_alive(att1)
           THEN \E death \in {DotDeath(AttackerId, Pl(att1, Defender),
                                       En(att1, Defender))} :
                    EndTurn(Pl(att1, Defender), En(att1, Defender), TRUE,
                            death.player_won,
                            dot_messages \o death.messages)
           ELSE \E ph \in {AttackPhase(att1, Defender, r_hit, r_crit,
                                       variance, r_effect, r_flavor)} :
                \E check \in {TerminalCheck(Pl(ph.attacker, ph.defender),
                                            En(ph.attacker, ph.defender))} :
                    EndTurn(Pl(ph.attacker, ph.defender),
                            En(ph.attacker, ph.defender),
                            check.over,
                            IF check.over THEN check.player_won
                            ELSE player_won,
                            dot_messages \o ph.messages \o check.messages)

ExecuteTurn_reorders(hit_rolls) ==
    /\ phase = "battle"
    /\ IF TurnRefused(combat_over)
       THEN /\ returned' = <<>>
            /\ UNCHANGED <<player, enemy, turn, combat_log, combat_over,
                           player_won, turn_order>>
       ELSE /\ \E r_hit \in hit_rolls, r_crit \in CritRolls,
                  variance \in Variances, r_effect \in EffectRolls,
                  r_flavor \in CritRolls :
                   TurnStep(r_hit, r_crit, variance, r_effect, r_flavor)
            /\ turn_order' = IF AttackerSpeed(player') >= AttackerSpeed(enemy')
                             THEN <<"player", "enemy">>
                             ELSE <<"enemy", "player">>
    /\ UNCHANGED <<phase, manager,
                   auto_combat, generating, in_flight, result_slot,
                   equipment_slots>>

\* execute_turn with the hit draws taken from hit_rolls
ExecuteTurn(hit_rolls) ==
    /\ phase = "battle"
    /\ IF TurnRefused(combat_over)
       THEN /\ returned' = <<>>
            /\ UNCHANGED <<player, enemy, turn, combat_log, combat_over,
                           player_won>>
       ELSE \E r_hit \in hit_rolls, r_crit \in CritRolls,
               variance \in Variances, r_effect \in EffectRolls,
               r_flavor \in CritRolls :
                TurnStep(r_hit, r_crit, variance, r_effect, r_flavor)
    /\ UNCHANGED <<turn_order, phase, manager,
                   auto_combat, generating, in_flight, result_slot,
                   equipment_slots>>

execute_turn ==
    /\ combat_over \/ turn < MaxTurns
    /\ ExecuteTurn(Rolls)

Next ==
    \/ EquipPlayer
    \/ EquipEnemy
    \/ SetEnemyStats
    \/ StartCombat
    \/ execute_turn

Spec == Init /\ [][Next]_vars

(***************************************************************************)
(* scenes.py: CombatScene around the CombatSystem.  The keys SPACE, A and  *)
(* R of handle_event, the automatic turn of update (its timer is left out: *)
(* the turn comes at some later frame) and restart_battle.  The equipment  *)
(* slots hold what the player was equipped with.                           *)
(***************************************************************************)
restart_battle_keepsFighters ==
    /\ turn' = 0
    /\ combat_log' = <<>>
    /\ combat_over' = FALSE
    /\ player_won' = FALSE
    /\ turn_order' = determine_turn_order(player, enemy)
    /\ auto_combat' = FALSE
    /\ UNCHANGED crafting_vars
    /\ UNCHANGED <<player, enemy, returned, phase, manager>>

\* CombatScene.restart_battle: new fighters, the same equipment, the enemy
\* stats of the scene, a new CombatSystem
restart_battle ==
    /\ \E hp \in PlayerHealths, he \in EnemyHealths,
          d \in EnemyBaseDamages, a \in EnemyBaseArmors :
           /\ player' = equip_items(Fighter("Player", hp), player.weapon,
                                    player.armor, player.concoction)
           /\ enemy' = [Fighter("Enemy", he) EXCEPT !.base_damage = d,
                                                    !.base_armor = a]
           /\ turn_order' = determine_turn_order(player', enemy')
    /\ turn' = 0
    /\ combat_log' = <<>>
    /\ combat_over' = FALSE
    /\ player_won' = FALSE
    /\ auto_combat' = FALSE
    /\ UNCHANGED crafting_vars
    /\ UNCHANGED <<returned, phase, manager>>

\* K_SPACE: "and not self.combat.combat_over"
KeySpace ==
    /\ phase = "battle"
    /\ ~combat_over
    /\ turn < MaxTurns
    /\ ExecuteTurn(Rolls)

\* K_a: "and not self.combat.combat_over"
KeyAuto ==
    /\ phase = "battle"
    /\ ~combat_over
    /\ auto_combat' = ~auto_combat
    /\ UNCHANGED crafting_vars
    /\ UNCHANGED <<player, enemy, turn, combat_log, combat_over, player_won,
                   turn_order, returned, phase, manager>>

\* K_r: "and self.combat.combat_over"
KeyRestart ==
    /\ phase = "battle"
    /\ combat_over
    /\ restart_battle

\* CombatScene.update: the automatic turn
AutoTurn ==
    /\ phase = "battle"
    /\ auto_combat
    /\ ~combat_over
    /\ turn < MaxTurns
    /\ ExecuteTurn(Rolls)

NextScene ==
    \/ EquipPlayer
    \/ EquipEnemy
    \/ SetEnemyStats
    \/ StartCombat
    \/ KeySpace
    \/ KeyAuto
    \/ KeyRestart
    \/ AutoTurn

SpecScene == Init /\ [][NextScene]_vars

(***************************************************************************)
(* One EffectManager on its own: any sequence of add_effect and            *)
(* process_turn calls.  The battle variables stay as constructed.          *)
(***************************************************************************)
ManagerTypes == {"bleed", "fire", "freeze"}
ManagerPowers == {50, 250}
ManagerDurations == {1, 2, 3}

\* every power with every duration, one power (0.75) that only ever comes
\* with duration 1, and one duration (4) that only ever comes from the
\* source "Enemy"
ManagerEffects ==
    {ActiveEffect(t, p, d, "Player") :
        t \in ManagerTypes, p \in ManagerPowers, d \in ManagerDurations}
      \cup {ActiveEffect(t, 75, 1, "Player") : t \in ManagerTypes}
      \cup {ActiveEffect("bleed", 250, 4, "Enemy")}

InitManager ==
    /\ phase = "manager"
    /\ player = Fighter("Player", 8)
    /\ enemy = Fighter("Enemy", 7)
    /\ NoCombat
    /\ manager = <<>>
    /\ auto_combat = FALSE
    /\ generating = <<>> /\ in_flight = <<>>
    /\ result_slot = <<>> /\ equipment_slots = <<>>

\* EffectManager.add_effect(effect)
ManagerAddEffect(effect) ==
    /\ phase = "manager"
    /\ \A i \in 1..Len(manager) :
           manager[i].effect_type = effect.effect_type
               => manager[i].stacks < MaxStacks
    /\ manager' = add_effect(manager, effect)
    /\ returned' = <<>>
    /\ UNCHANGED <<player, enemy, turn, combat_log, combat_over, player_won,
                   turn_order, phase,
                   auto_combat, generating, in_flight, result_slot,
                   equipment_slots>>

ManagerAdd == \E effect \in ManagerEffects : ManagerAddEffect(effect)

\* EffectManager.process_turn(); returned holds the messages it returns
ManagerProcessTurn ==
    /\ phase = "manager"
    /\ manager' = process_turn(manager).effects
    /\ returned' = process_turn(manager).messages
    /\ UNCHANGED <<player, enemy, turn, combat_log, combat_over, player_won,
                   turn_order, phase,
                   auto_combat, generating, in_flight, result_slot,
                   equipment_slots>>

NextManager == ManagerAdd \/ ManagerProcessTurn

SpecManager == InitManager /\ [][NextManager]_vars

(***************************************************************************)
(* The end-to-end matchup: Fighter("P", 100) without equipment against     *)
(* Fighter("E", 100) with base_damage 15 and base_armor 10.  Hit rolls     *)
(* succeed eventually: at most MaxMisses attacks of a battle miss, and     *)
(* execute_turn is called again as long as it changes anything.            *)
(***************************************************************************)
MatchPlayer == Fighter("P", 100)
MatchEnemy == [Fighter("E", 100) EXCEPT !.base_damage = 15, !.base_armor = 10]

InitMatch ==
    /\ phase = "battle"
    /\ player = MatchPlayer
    /\ enemy = MatchEnemy
    /\ turn = 0
    /\ combat_log = <<>>
    /\ combat_over = FALSE
    /\ player_won = FALSE
    /\ turn_order = determine_turn_order(MatchPlayer, MatchEnemy)
    /\ returned = <<>>
    /\ manager = <<>>
    /\ auto_combat = FALSE
    /\ generating = <<>> /\ in_flight = <<>>
    /\ result_slot = <<>> /\ equipment_slots = <<>>

Misses == Cardinality({i \in 1..Len(combat_log) : combat_log[i].kind = "miss"})

execute_turn_fair ==
    ExecuteTurn(IF Misses < MaxMisses THEN Rolls ELSE {0})

NextMatch == execute_turn_fair

SpecMatch == InitMatch /\ [][NextMatch]_vars /\ WF_vars(execute_turn_fair)

(***************************************************************************)
(* One Fighter on its own: any sequence of equip_items, take_damage and    *)
(* effects.add_effect(SHIELD) calls.                                       *)
(***************************************************************************)
ArmorItem(armor) == ItemStats(0, armor, 10, 0, "", 0)
SmallConcoction == ItemStats(0, 0, 10, 30, "", 0)

FighterLoadouts ==
    {<<NoItem, NoItem, NoItem>>,
     <<PlainWeapon, ArmorItem(92), NoItem>>,
     <<NoItem, ArmorItem(140), SmallConcoction>>,
     <<NoItem, NoItem, Concoction>>}
FighterBaseArmors == {0, 20}
FighterHealths == {12}
\* SHIELD effects: power 40.0, three turns
ShieldEffects == {ActiveEffect("shield", 4000, 3, "Player")}

InitFighter ==
    /\ phase = "fighter"
    /\ \E hp \in FighterHealths, base \in FighterBaseArmors :
           player = [Fighter("Player", hp) EXCEPT !.base_armor = base]
    /\ enemy = Fighter("Enemy", 7)
    /\ NoCombat
    /\ manager = <<>>
    /\ auto_combat = FALSE
    /\ generating = <<>> /\ in_flight = <<>>
    /\ result_slot = <<>> /\ equipment_slots = <<>>

\* player.equip_items(weapon, armor, concoction)
FighterEquip(weapon, armor, concoction) ==
    /\ phase = "fighter"
    /\ player' = equip_items(player, weapon, armor, concoction)
    /\ returned' = <<>>
    /\ UNCHANGED <<enemy, turn, combat_log, combat_over, player_won,
                   turn_order, phase, manager,
                   auto_combat, generating, in_flight, result_slot,
                   equipment_slots>>

FighterEquipAny == \E l \in FighterLoadouts : FighterEquip(l[1], l[2], l[3])

\* player.take_damage(damage); returned holds the value it returns
TakeDamage(damage) ==
    /\ phase = "fighter"
    /\ player' = take_damage(player, damage).fighter
    /\ returned' = <<take_damage(player, damage).actual>>
    /\ UNCHANGED <<enemy, turn, combat_log, combat_over, player_won,
                   turn_order, phase, manager,
                   auto_combat, generating, in_flight, result_slot,
                   equipment_slots>>

TakeAnyDamage == \E damage \in 0..MaxRaw : TakeDamage(damage)

\* player.effects.add_effect(ActiveEffect(EffectType.SHIELD, ..))
FighterAddShield ==
    /\ phase = "fighter"
    /\ \E effect \in ShieldEffects :
           player' = [player EXCEPT !.effects = add_effect(@, effect)]
    /\ returned' = <<>>
    /\ UNCHANGED <<enemy, turn, combat_log, combat_over, player_won,
                   turn_order, phase, manager,
                   auto_combat, generating, in_flight, result_slot,
                   equipment_slots>>

NextFighter == FighterEquipAny \/ TakeAnyDamage \/ FighterAddShield

SpecFighter == InitFighter /\ [][NextFighter]_vars

(***************************************************************************)
(* Effect-duration harness: a long battle between a player whose weapon    *)
(* applies an effect and an enemy that survives it.  The enemy's armor     *)
(* brings every hit of the player down to the same loss, and the enemy     *)
(* deals no damage, so that the turns differ in the effects only.          *)
(***************************************************************************)
DurationWeapons ==
    {EffectItem("fire", 300), EffectItem("poison", 200),
     EffectItem("bleed", 250)}

DurationEnemy ==
    [Fighter("Enemy", 100) EXCEPT !.base_damage = 0, !.base_armor = 150]

InitDuration ==
    /\ phase = "battle"
    /\ \E w \in DurationWeapons :
           player = equip_items(Fighter("Player", 20), w, NoItem, NoItem)
    /\ enemy = DurationEnemy
    /\ turn = 0
    /\ combat_log = <<>>
    /\ combat_over = FALSE
    /\ player_won = FALSE
    /\ turn_order = determine_turn_order(player, enemy)
    /\ returned = <<>>
    /\ manager = <<>>
    /\ auto_combat = FALSE
    /\ generating = <<>> /\ in_flight = <<>>
    /\ result_slot = <<>> /\ equipment_slots = <<>>

\* the hit draws of the harness: a hit and a miss
DurationHitRolls == {0, 99}

execute_turn_long ==
    /\ turn < MaxDurationTurns
    /\ ExecuteTurn(DurationHitRolls)

NextDuration == execute_turn_long

SpecDuration == InitDuration /\ [][NextDuration]_vars

(***************************************************************************)
(* Properties                                                              *)
(***************************************************************************)
(* Hit-chance harness: battles between a player whose items make it very   *)
(* slow or very fast and an enemy whose weapon freezes, weakly or with a    *)
(* power of 1.0 and more, so that the hit chance reaches both clamps.       *)
(***************************************************************************)
SpeedItem(speed) == ItemStats(0, 0, speed, 0, "", 0)

HitWeapons == {SpeedItem(3), SpeedItem(10), SpeedItem(20), SpeedItem(30)}
HitArmors == {SpeedItem(5), SpeedItem(10), SpeedItem(16)}
FreezeWeapons == {EffectItem("freeze", p) : p \in {30, 70, 100, 150}}

InitHit ==
    /\ phase = "battle"
    /\ \E w \in HitWeapons, a \in HitArmors :
           player = equip_items(Fighter("Player", 100), w, a, NoItem)
    /\ \E w \in FreezeWeapons :
           enemy = equip_items(Fighter("Enemy", 100), w, NoItem, NoItem)
    /\ turn = 0
    /\ combat_log = <<>>
    /\ combat_over = FALSE
    /\ player_won = FALSE
    /\ turn_order = determine_turn_order(player, enemy)
    /\ returned = <<>>
    /\ manager = <<>>
    /\ auto_combat = FALSE
    /\ generating = <<>> /\ in_flight = <<>>
    /\ result_slot = <<>> /\ equipment_slots = <<>>

execute_turn_speed ==
    /\ turn < MaxTurns
    /\ ExecuteTurn(Rolls)

NextHit == execute_turn_speed

SpecHit == InitHit /\ [][NextHit]_vars

(***************************************************************************)
(* ai_client.py AIClient and scenes.py CraftingScene: an item is generated *)
(* on a background thread and handed to the scene's on_complete callback.  *)
(*                                                                         *)
(* generating[i], result_slot[i] and equipment_slots[i] are the fields of  *)
(* the i-th CraftingScene object constructed; the scene on screen is the   *)
(* last one.  in_flight[k] is the k-th thread generate_item_async started. *)
(* The crafting grid is taken to hold a material whenever the craft button *)
(* is clicked, and every crafted item is a weapon.                         *)
(***************************************************************************)
\* threads started over all crafting scenes
MaxCrafts == 3
\* CraftingScene objects constructed
MaxCraftingScenes == 2

\* the stats dictionaries the backend answers with (response.json())
StatsResponses ==
    { ItemStats(12, 0, 10, 0, "fire", 300),
      ItemStats(8, 0, 12, 0, "lifesteal", 50),
      ItemStats(9, 0, 11, 0, "", 0) }

\* AIClient._create_default_stats for a weapon
create_default_stats == ItemStats(10, 0, 10, 0, "", 0)

\* AIClient._request_stats: the response, or the default stats when the
\* request fails
request_stats(ok, response) == IF ok THEN response ELSE create_default_stats

\* AIClient.generate_item: the ItemStats(...) call passes damage, armor,
\* speed, health and special_effect; effect_type and effect_power keep the
\* defaults of the dataclass
generate_item(stats_data) ==
    ItemStats(stats_data.damage, stats_data.armor, stats_data.speed,
              stats_data.health, "", 0)

\* the thread generate_item_async starts for the scene
Thread(scene) ==
    [scene |-> scene, pc |-> "generate", ok |-> FALSE, stats_data |-> NoItem,
     item |-> NoItem, callbacks |-> 0]

\* the CraftingScene on screen
current_scene == Len(generating)

\* threads of a scene whose callback has not run yet
Running(scene) ==
    {k \in 1..Len(in_flight) :
        in_flight[k].scene = scene /\ in_flight[k].pc # "done"}

\* Game.__init__: the first CraftingScene
InitCrafting ==
    /\ phase = "crafting"
    /\ generating = <<FALSE>>
    /\ in_flight = <<>>
    /\ result_slot = <<NoItem>>
    /\ equipment_slots = <<NoItem>>
    /\ player = Fighter("Player", 100)
    /\ enemy = Fighter("Enemy", 800)
    /\ NoCombat
    /\ manager = <<>>
    /\ auto_combat = FALSE

StartCrafting_unguarded ==
    /\ phase = "crafting"
    /\ Len(in_flight) < MaxCrafts
    /\ generating' = [generating EXCEPT ![current_scene] = TRUE]
    /\ in_flight' = Append(in_flight, Thread(current_scene))
    /\ UNCHANGED <<player, enemy, turn, combat_log, combat_over, player_won,
                   turn_order, returned, phase, manager, auto_combat,
                   result_slot, equipment_slots>>

\* a click on the craft button: _handle_mouse_down and _start_crafting
StartCrafting ==
    /\ phase = "crafting"
    /\ ~generating[current_scene]
    /\ Len(in_flight) < MaxCrafts
    /\ generating' = [generating EXCEPT ![current_scene] = TRUE]
    /\ in_flight' = Append(in_flight, Thread(current_scene))
    /\ UNCHANGED <<player, enemy, turn, combat_log, combat_over, player_won,
                   turn_order, returned, phase, manager, auto_combat,
                   result_slot, equipment_slots>>

\* the thread's "item = self.generate_item(materials, item_type, seed)"
ThreadGenerate ==
    /\ \E k \in 1..Len(in_flight), ok \in BOOLEAN,
          response \in StatsResponses :
           /\ in_flight[k].pc = "generate"
           /\ LET stats_data == request_stats(ok, response)
              IN in_flight' =
                     [in_flight EXCEPT ![k] =
                         [@ EXCEPT !.pc = "callback", !.ok = ok,
                                   !.stats_data = stats_data,
                                   !.item = generate_item(stats_data)]]
    /\ UNCHANGED <<player, enemy, turn, combat_log, combat_over, player_won,
                   turn_order, returned, phase, manager, auto_combat,
                   generating, result_slot, equipment_slots>>

\* the thread's "callback(item)": on_complete of the scene that started it
on_complete ==
    /\ \E k \in 1..Len(in_flight) :
           /\ in_flight[k].pc = "callback"
           /\ generating' = [generating EXCEPT ![in_flight[k].scene] = FALSE]
           /\ result_slot' =
                  [result_slot EXCEPT ![in_flight[k].scene] = in_flight[k].item]
           /\ in_flight' =
                  [in_flight EXCEPT ![k] =
                      [@ EXCEPT !.pc = "done", !.callbacks = @ + 1]]
    /\ UNCHANGED <<player, enemy, turn, combat_log, combat_over, player_won,
                   turn_order, returned, phase, manager, auto_combat,
                   equipment_slots>>

\* the result item dragged onto the weapon slot: _handle_mouse_down takes it
\* out of the result slot, _handle_mouse_up equips it
EquipResult ==
    /\ phase = "crafting"
    /\ result_slot[current_scene].present
    /\ equipment_slots' =
           [equipment_slots EXCEPT ![current_scene] = result_slot[current_scene]]
    /\ result_slot' = [result_slot EXCEPT ![current_scene] = NoItem]
    /\ UNCHANGED <<player, enemy, turn, combat_log, combat_over, player_won,
                   turn_order, returned, phase, manager, auto_combat,
                   generating, in_flight>>

\* the fight button or ESCAPE: change_scene(CombatScene(game, equipment_slots))
FightButton ==
    /\ phase = "crafting"
    /\ phase' = "combat"
    /\ player' = equip_items(Fighter("Player", 100),
                             equipment_slots[current_scene], NoItem, NoItem)
    /\ enemy' = [Fighter("Enemy", 800) EXCEPT !.base_damage = 25,
                                              !.base_armor = 20]
    /\ turn' = 0
    /\ combat_log' = <<>>
    /\ combat_over' = FALSE
    /\ player_won' = FALSE
    /\ turn_order' = determine_turn_order(player', enemy')
    /\ auto_combat' = FALSE
    /\ UNCHANGED <<returned, manager, generating, in_flight, result_slot,
                   equipment_slots>>

\* ESCAPE in the combat scene: change_scene(CraftingScene(self.game))
BackToCrafting ==
    /\ phase = "combat"
    /\ Len(generating) < MaxCraftingScenes
    /\ phase' = "crafting"
    /\ generating' = Append(generating, FALSE)
    /\ result_slot' = Append(result_slot, NoItem)
    /\ equipment_slots' = Append(equipment_slots, NoItem)
    /\ UNCHANGED <<player, enemy, turn, combat_log, combat_over, player_won,
                   turn_order, returned, manager, auto_combat, in_flight>>

NextCrafting ==
    \/ StartCrafting
    \/ ThreadGenerate
    \/ on_complete
    \/ EquipResult
    \/ FightButton
    \/ BackToCrafting

SpecCrafting == InitCrafting /\ [][NextCrafting]_vars

(***************************************************************************)
Fighters == {player, enemy}
HasKind(log, k) == \E i \in 1..Len(log) : log[i].kind = k

\* C1: in every state of a battle (after equip_items, after any number of
\* execute_turn calls) each fighter's current_health lies in
\* 0 .. max_health + 50, the items having non-negative stats.
C1_HealthInRange ==
    \A f \in Fighters :
        /\ 0 <= f.current_health
        /\ f.current_health <= f.max_health + 50

\* a battle is under way and a fighter holding a concoction bonus has taken
\* damage and is still above max_health
C1_Witness ==
    /\ phase = "battle"
    /\ turn >= 2
    /\ player.concoction.present
    /\ player.current_health > player.max_health
    /\ player.current_health < player.max_health + 50

\* C2: once combat_over is true an execute_turn call returns [] and changes
\* neither turn, combat_log, combat_over, player_won nor any fighter (health
\* and active effects included).
C2_OverTurnIsNoOp ==
    [][(combat_over /\ execute_turn)
          => /\ returned' = <<>>
             /\ UNCHANGED <<player, enemy, turn, combat_log, combat_over,
                            player_won, turn_order>>]_vars

\* execute_turn has been called on a finished battle
C2_Witness ==
    /\ phase = "battle"
    /\ combat_over
    /\ combat_log # <<>>
    /\ returned = <<>>

\* C3: after every execute_turn call combat_over is true exactly when at
\* least one fighter's current_health is 0.
C3_OverIffDead ==
    combat_over <=> (player.current_health = 0 \/ enemy.current_health = 0)

\* a battle that ended with the enemy at 0 health and the player above 0
C3_Witness ==
    /\ combat_over
    /\ enemy.current_health = 0
    /\ player.current_health > 0

\* the DoT damage of the coming tick brings the coming attacker to 0 health
DotLethal ==
    /\ phase = "battle"
    /\ ~combat_over
    /\ process_turn(Attacker.effects).damage > 0
    /\ process_turn(Attacker.effects).damage >= Attacker.current_health

\* C4: a turn whose DoT tick brings the attacker to 0 health ends the combat
\* with the defender as winner, leaves the defender (health and active
\* effects) untouched and increments turn by 1.
C4_DotKillSkipsAttack ==
    [][DotLethal
          => /\ combat_over'
             /\ player_won' = (AttackerId = "enemy")
             /\ Last(combat_log') = Msg("wins", Defender.name)
             /\ IF AttackerId = "player"
                THEN enemy' = enemy /\ player'.current_health = 0
                ELSE player' = player /\ enemy'.current_health = 0
             /\ ~HasKind(returned', "attack")
             /\ ~HasKind(returned', "miss")
             /\ turn' = turn + 1]_vars

\* a fighter has succumbed to a DoT tick
C4_Witness ==
    /\ combat_over
    /\ HasKind(combat_log, "succumbs")

\* the fighter that attacked in the turn just executed
LastAttackerId == turn_order[((turn - 1) % 2) + 1]

C6_BothDeadEnemyWins ==
    (player.current_health = 0 /\ enemy.current_health = 0)
        => /\ combat_over
           /\ ~player_won
           /\ Last(combat_log) = Msg("wins", enemy.name)

\* both fighters fell in a turn in which the enemy attacked
C6_Witness ==
    /\ phase = "battle"
    /\ turn > 0
    /\ LastAttackerId = "enemy"
    /\ player.current_health = 0
    /\ enemy.current_health = 0

\* C7: whenever combat_over is true the last entry of combat_log is the
\* winner message, naming the player if player_won and the enemy otherwise,
\* and nothing is appended after it.
C7_WinnerMessageLast ==
    [][/\ combat_over'
          => /\ combat_log' # <<>>
             /\ Last(combat_log')
                    = Msg("wins", IF player_won' THEN player'.name
                                  ELSE enemy'.name)
       /\ combat_over => combat_log' = combat_log]_vars

\* a battle the player won, closed by the player's winner message
C7_Witness ==
    /\ combat_over
    /\ player_won
    /\ Last(combat_log) = Msg("wins", "Player")

\* C8: when combat_over is true, player_won is true exactly when the player
\* is above 0 health and the enemy is at 0; player_won is never true while
\* the player is at 0 health nor before combat_over.
C8_PlayerWonMeaning ==
    /\ combat_over
          => (player_won <=> (player.current_health > 0
                                 /\ enemy.current_health = 0))
    /\ player_won => combat_over
    /\ player_won => player.current_health > 0

\* a battle the enemy lost to a DoT tick or a hit, the player still standing
C8_Witness ==
    /\ combat_over
    /\ player_won
    /\ player.current_health > 0
    /\ enemy.current_health = 0
    /\ turn >= 2

\* a hit of the last step lowered the defender's health by at least 1
HitLowersDefender ==
    (turn' = turn + 1 /\ (HasKind(returned', "attack")))
        => IF AttackerId = "player"
           THEN enemy'.current_health <= enemy.current_health - 1
           ELSE player'.current_health <= player.current_health - 1

\* C9: in the matchup P (100 health, damage 5, no equipment) against E (100
\* health, base_damage 15, base_armor 10) repeated execute_turn calls
\* eventually reach combat_over, hit rolls succeeding eventually; and every
\* hit lowers the defender's health by at least 1.
C9_MatchupTerminates ==
    /\ <>combat_over
    /\ [][HitLowersDefender]_vars

\* the matchup has ended although an attack missed
C9_Witness ==
    /\ combat_over
    /\ HasKind(combat_log, "miss")
    /\ HasKind(combat_log, "attack")
    /\ player.max_health = 100

UniqueTypes(effects) ==
    \A i, j \in 1..Len(effects) :
        effects[i].effect_type = effects[j].effect_type => i = j

\* C10: after any sequence of add_effect and process_turn calls there is at
\* most one active entry per effect type; adding BLEED or POISON while an
\* entry of that type is active adds no entry and increments that entry's
\* stacks by exactly 1.
C10_OneEntryPerType ==
    [][/\ UniqueTypes(manager')
       /\ \A effect \in ManagerEffects :
            (/\ ManagerAddEffect(effect)
             /\ effect.effect_type \in StackingTypes
             /\ HasType(manager, effect.effect_type))
                => /\ Len(manager') = Len(manager)
                   /\ LET i == FirstIndex(manager, effect.effect_type)
                      IN /\ manager'[i].effect_type = effect.effect_type
                         /\ manager'[i].stacks = manager[i].stacks + 1]_vars

\* BLEED applied twice: one entry with stacks = 2
C10_Witness ==
    /\ phase = "manager"
    /\ Len(manager) = 1
    /\ manager[1].effect_type = "bleed"
    /\ manager[1].stacks = 2

\* C11: adding an effect of a non-stacking type while an entry of that type
\* is active sets that entry's duration to max(current, new), never the sum,
\* leaves its stacks unchanged and adds no entry.
C11_RefreshTakesMax ==
    [][\A effect \in ManagerEffects :
         (/\ ManagerAddEffect(effect)
          /\ effect.effect_type \notin StackingTypes
          /\ HasType(manager, effect.effect_type))
             => /\ Len(manager') = Len(manager)
                /\ LET i == FirstIndex(manager, effect.effect_type)
                   IN /\ manager'[i].duration
                             = Max(manager[i].duration, effect.duration)
                      /\ manager'[i].stacks = manager[i].stacks
                      /\ \A j \in 1..Len(manager) :
                             j # i => manager'[j] = manager[j]]_vars

\* a FREEZE entry created with duration 1 (power 0.75 comes only with
\* duration 1) that a later FREEZE of duration 2 has refreshed
C11_Witness ==
    /\ phase = "manager"
    /\ \E i \in 1..Len(manager) :
           /\ manager[i].effect_type = "freeze"
           /\ manager[i].power = 75
           /\ manager[i].duration = 2
           /\ manager[i].stacks = 1

\* C12: after every process_turn call no active effect has duration <= 0:
\* an effect whose duration reaches 0 in the tick is removed in that call,
\* the others stay, in order, with their duration one lower.
C12_ExpiredRemovedAtOnce ==
    [][ManagerProcessTurn
          => /\ \A i \in 1..Len(manager') : manager'[i].duration >= 1
             /\ \A i \in 1..Len(manager) :
                    IF manager[i].duration = 1
                    THEN ~HasType(manager', manager[i].effect_type)
                    ELSE \E j \in 1..Len(manager') :
                            manager'[j] = [manager[i] EXCEPT
                                              !.duration = @ - 1]
             /\ Len(manager')
                    = Cardinality({i \in 1..Len(manager) :
                                      manager[i].duration >= 2})]_vars

\* the process_turn call just made ticked a FIRE effect (its message was
\* returned) and removed it, while a FREEZE effect stays with duration >= 1
C12_Witness ==
    /\ phase = "manager"
    /\ returned = <<Msg("dot", "Fire")>>
    /\ ~HasType(manager, "fire")
    /\ HasType(manager, "freeze")

\* C13: for every raw damage >= 0 and total armor a >= 0, take_damage
\* returns floor(damage * (1 - min(a/200, 0.75))) and sets current_health to
\* max(0, current_health - that value); armor above 150 mitigates exactly as
\* much as armor 150.
C13_TakeDamageReturnsFloor ==
    [][\A damage \in 0..MaxRaw :
         TakeDamage(damage)
            => LET floor == ExactFloor(get_total_armor(player), damage)
               IN /\ returned' = <<floor>>
                  /\ player'.current_health
                        = Max(0, player.current_health - floor)
                  /\ get_total_armor(player) >= 150
                        => floor = ExactFloor(150, damage)]_vars

\* the product of base_speed and the speed of every item held, in 1/10000
ItemSpeed(f) ==
    f.base_speed * (IF f.weapon.present THEN f.weapon.speed ELSE 10)
                 * (IF f.armor.present THEN f.armor.speed ELSE 10)
                 * (IF f.concoction.present THEN f.concoction.speed ELSE 10)

\* C14: CombatSystem construction puts the fighter with the strictly higher
\* total speed first in turn_order, player or enemy; with equal speeds the
\* player is first.
C14_FasterFighterFirst ==
    phase = "battle"
        => /\ ItemSpeed(player) > ItemSpeed(enemy)
                 => turn_order = <<"player", "enemy">>
           /\ ItemSpeed(enemy) > ItemSpeed(player)
                 => turn_order = <<"enemy", "player">>
           /\ ItemSpeed(player) = ItemSpeed(enemy)
                 => turn_order = <<"player", "enemy">>

\* a battle constructed with an enemy strictly faster than the player, in
\* which the enemy has acted first
C14_Witness ==
    /\ phase = "battle"
    /\ turn >= 1
    /\ ItemSpeed(enemy) > ItemSpeed(player)
    /\ turn_order = <<"enemy", "player">>
    /\ combat_log # <<>>
    /\ combat_log[1].who = "Enemy"

\* C15: turn_order is never changed by execute_turn: after any sequence of
\* turns, also when an active FREEZE makes the first fighter slower than the
\* second, it is the order computed at construction.
C15_TurnOrderFixed ==
    [][phase = "battle" => turn_order' = turn_order]_vars

\* the enemy acts first, the slower player has frozen it below the player's
\* speed, and turns have been executed since
C15_Witness ==
    /\ phase = "battle"
    /\ turn_order = <<"enemy", "player">>
    /\ has_effect(enemy.effects, "freeze")
    /\ AttackerSpeed(enemy) < AttackerSpeed(player)
    /\ Len(SelectSeq(combat_log, LAMBDA m : m.kind = "slowed")) >= 1
    /\ turn >= 3

\* C16: each execute_turn call returns only the messages of that call and
\* appends exactly those, in order, to combat_log: the log afterwards is the
\* log before followed by the returned list.
C16_LogAppendsReturned ==
    [][(phase = "battle" /\ execute_turn)
          => /\ combat_log' = combat_log \o returned'
             /\ SubSeq(combat_log', 1, Len(combat_log)) = combat_log
             /\ (~combat_over => returned' # <<>>)]_vars

\* a third turn has returned its own messages, fewer than the log holds
C16_Witness ==
    /\ phase = "battle"
    /\ turn >= 3
    /\ returned # <<>>
    /\ Len(returned) < Len(combat_log)
    /\ SubSeq(combat_log, Len(combat_log) - Len(returned) + 1,
              Len(combat_log)) = returned

\* C17: get_total_armor equals base_armor plus the equipped armor's armor
\* plus the SHIELD armor bonus reported by get_stat_modifiers, so an active
\* SHIELD effect increases the reduction take_damage applies.
C17_ArmorIncludesShield ==
    phase = "fighter"
        => get_total_armor(player)
               = player.base_armor
                   + (IF player.armor.present THEN player.armor.armor ELSE 0)
                   + get_stat_modifiers(player.effects).armor_bonus

\* the power of the FREEZE effect active on f, 0 without one
FreezePower(f) ==
    IF \E i \in 1..Len(f.effects) : f.effects[i].effect_type = "freeze"
    THEN LET i == CHOOSE i \in 1..Len(f.effects) :
                      f.effects[i].effect_type = "freeze"
         IN f.effects[i].power
    ELSE 0

\* C18: get_total_speed equals base_speed * weapon speed * armor speed *
\* concoction speed, additionally multiplied by (1 - freeze power) while a
\* FREEZE effect is active on the fighter.
C18_TotalSpeedHasFreeze ==
    phase = "battle"
        => \A f \in Fighters :
               get_total_speed(f) * 100 = ItemSpeed(f) * (100 - FreezePower(f))

\* get_total_speed is the product of the item speeds whatever effects are
\* active
SpeedIgnoresEffects ==
    \A f \in Fighters : get_total_speed(f) = ItemSpeed(f)

\* the coming attack misses when its hit draw is r_hit (the other draws are
\* not read on a miss)
ComingAttackMisses(r_hit) ==
    HasKind(AttackPhase(AfterDoT(Attacker), Defender, r_hit, 0, 100, 0, 0)
                .messages, "miss")

\* C18 as amended: get_total_speed equals base_speed * weapon speed * armor
\* speed * concoction speed, FREEZE or not; execute_turn multiplies the
\* attacker's speed by (1 - freeze power) while a FREEZE effect is active on
\* the attacker (after its effects were processed) and the attack hits
\* exactly when the draw is below clamp(0.8 + (speed - 1) * 0.15, 0.7, 0.95)
\* of the product.
C18_FreezeAppliedInTurn ==
    /\ SpeedIgnoresEffects
    /\ (phase = "battle" /\ ~combat_over)
          => LET attacker == AfterDoT(Attacker)
                 speed == ItemSpeed(attacker) * (100 - FreezePower(attacker))
                 chance == Max(70000000,
                               Min(95000000,
                                   80000000 + (speed - 1000000) * 15))
             IN \A r_hit \in Rolls :
                    ComingAttackMisses(r_hit) <=> r_hit * 1000000 >= chance

\* a frozen enemy, its FREEZE still active after the tick, has just attacked
\* and missed
C18_Witness ==
    /\ phase = "battle"
    /\ turn >= 2
    /\ LastAttackerId = "enemy"
    /\ has_effect(enemy.effects, "freeze")
    /\ returned = <<Msg("miss", "Enemy")>>
    /\ get_total_speed(enemy) = ItemSpeed(enemy)

\* C19: equip_items with a concoction sets current_health to
\* max_health + min(concoction.health, 50) at once; with no concoction it
\* leaves current_health unchanged; weapon and armor never change it.
C19_EquipSetsConcoctionHealth ==
    [][\A l \in FighterLoadouts :
         FighterEquip(l[1], l[2], l[3])
            => /\ player'.weapon = l[1]
               /\ player'.armor = l[2]
               /\ player'.concoction = l[3]
               /\ IF l[3].present
                  THEN player'.current_health
                           = player.max_health + Min(l[3].health, 50)
                  ELSE player'.current_health = player.current_health]_vars

\* the call just made equipped the concoction of health 60: the fighter
\* stands at max_health + 50
C19_Witness ==
    /\ phase = "fighter"
    /\ player.concoction = Concoction
    /\ player.current_health = player.max_health + 50
    /\ returned = <<>>
    /\ player.effects = <<>>

\* the weapon's effect_type is a string outside EffectType
InvalidEffectWeapon(f) ==
    /\ f.weapon.present
    /\ f.weapon.effect_type # ""
    /\ f.weapon.effect_type \notin EffectType

\* the messages of the attack itself: neither DoT ticks nor the winner
IsAttackMessage(m) == m.kind \notin {"dot", "wins"}

\* C20: when the attacker's weapon has an effect_type string that is not one
\* of the ten effect kinds, the turn completes and the hit behaves exactly
\* as with a weapon without effect: no effect is added to either fighter,
\* no health changes beyond the main hit and the reflect, and no effect
\* message is logged.
C20_UnknownEffectIgnored ==
    [][(/\ phase = "battle"
        /\ ~combat_over
        /\ InvalidEffectWeapon(Attacker)
        /\ is_alive(AfterDoT(Attacker)))
          => /\ turn' = turn + 1
             /\ \E r_hit \in Rolls, variance \in Variances :
                  LET plain == [AfterDoT(Attacker) EXCEPT
                                   !.weapon.effect_type = ""]
                      ph == AttackPhase(plain, Defender, r_hit, 0, variance,
                                        0, 0)
                      after == [ph.attacker EXCEPT !.weapon = Attacker.weapon]
                  IN /\ SelectSeq(returned', IsAttackMessage) = ph.messages
                     /\ IF AttackerId = "player"
                        THEN player' = after /\ enemy' = ph.defender
                        ELSE enemy' = after /\ player' = ph.defender]_vars

\* the player, holding a weapon of effect type "curse", has hit the enemy
C20_Witness ==
    /\ phase = "battle"
    /\ InvalidEffectWeapon(player)
    /\ LastAttackerId = "player"
    /\ turn >= 1
    /\ HasKind(returned, "attack")
    /\ enemy.current_health < enemy.max_health

\* C21: a restart carries nothing over from the previous battle: both
\* fighters have no active effects, the enemy is at max_health and the
\* player at max_health plus the capped concoction bonus, turn is 0,
\* combat_log is empty, combat_over is false and auto-combat is off; and a
\* restart is accepted only while combat_over is true.
C21_RestartResetsBattle ==
    [][/\ KeyRestart
          => /\ combat_over
             /\ player'.effects = <<>>
             /\ enemy'.effects = <<>>
             /\ enemy'.current_health = enemy'.max_health
             /\ player'.current_health
                   = player'.max_health
                       + (IF player.concoction.present
                          THEN Min(player.concoction.health, 50) ELSE 0)
             /\ player'.weapon = player.weapon
             /\ player'.armor = player.armor
             /\ player'.concoction = player.concoction
             /\ turn' = 0
             /\ combat_log' = <<>>
             /\ ~combat_over'
             /\ ~player_won'
             /\ ~auto_combat'
       /\ (phase = "battle" /\ ~combat_over)
          => /\ turn' \in {turn, turn + 1}
             /\ Len(combat_log') >= Len(combat_log)
             /\ player'.max_health = player.max_health]_vars

\* a battle restarted after the enemy won it: the last turn's messages are
\* still the value returned last, the log is empty and turn is 0
C21_Witness ==
    /\ phase = "battle"
    /\ turn = 0
    /\ combat_log = <<>>
    /\ returned # <<>>
    /\ Last(returned) = Msg("wins", "Enemy")
    /\ ~combat_over
    /\ ~auto_combat
    /\ player.current_health >= player.max_health

\* the name of the fighter that acted in a turn, read from the turn's
\* messages: who attacked, missed or succumbed to its effects
IsActorMessage(m) ==
    m.kind \in {"attack", "attack_critical", "miss", "succumbs"}

ActorOf(messages) ==
    messages[CHOOSE i \in 1..Len(messages) : IsActorMessage(messages[i])].who

\* C22: while combat is active every execute_turn call increments turn by
\* exactly 1 (on a hit, on a miss and on a DoT death alike), the fighter
\* that acts is turn_order[turn mod 2], and it is not the fighter that acted
\* in the turn before.
C22_TurnsAlternate ==
    [][(phase = "battle" /\ ~combat_over /\ execute_turn)
       => /\ turn' = turn + 1
          /\ \E i \in 1..Len(returned') : IsActorMessage(returned'[i])
          /\ ActorOf(returned') = F(turn_order[(turn % 2) + 1]).name
          /\ turn > 0 => ActorOf(returned') # ActorOf(returned)]_vars

\* a battle of three turns: a hit, a miss, and the death of the third
\* turn's attacker from its effects
C22_Witness ==
    /\ phase = "battle"
    /\ turn = 3
    /\ combat_over
    /\ HasKind(combat_log, "attack")
    /\ HasKind(combat_log, "miss")
    /\ HasKind(returned, "succumbs")

\* C23: armor never reduces DoT or reflect damage.  In a turn of an
\* active battle the attacker loses the whole DoT total of its effects,
\* floored at 0, and on a hit on a defender in reflect armor it loses in
\* addition floor(damage * the armor's effect_power), where damage is the
\* hit's damage before the defender's armor (the defender itself loses the
\* mitigated amount of the same damage).  Stated for weapons that neither
\* heal nor hurt their wielder, so that the attacker's health after the
\* turn shows both amounts.
C23_ArmorDoesNotReduceDotOrReflect ==
    [][(/\ phase = "battle"
        /\ ~combat_over
        /\ turn' = turn + 1
        /\ ~(/\ Attacker.weapon.present
             /\ Attacker.weapon.effect_type
                   \in {"lifesteal", "vampiric", "reflect"}))
       => LET a == Attacker
              d == Defender
              a2 == IF AttackerId = "player" THEN player' ELSE enemy'
              d2 == IF AttackerId = "player" THEN enemy' ELSE player'
              dot == SumDamage(a.effects)
              h1 == Max(0, a.current_health - dot)
          IN IF HasKind(returned', "attack")
                \/ HasKind(returned', "attack_critical")
             THEN \E variance \in Variances, r_crit \in Rolls :
                     LET damage == HitDamage(a, r_crit, variance)
                         reflect_damage ==
                             IF d.armor.present
                                /\ d.armor.effect_type = "reflect"
                             THEN (damage * d.armor.effect_power) \div 100
                             ELSE 0
                     IN /\ a2.current_health = Max(0, h1 - reflect_damage)
                        /\ HasKind(returned', "lightning")
                           \/ d2.current_health
                                = Max(0, d.current_health
                                    - ActualDamage(get_total_armor(d), damage))
             ELSE a2.current_health = h1]_vars

\* after a turn in which an attacker in armor lost health to a DoT effect
\* and to the reflect armor of a defender whose own armor mitigated the hit,
\* and survived both
C23_Witness ==
    /\ phase = "battle"
    /\ turn > 0
    /\ HasKind(returned, "dot")
    /\ HasKind(returned, "reflect")
    /\ get_total_armor(F(LastAttackerId)) > 0
    /\ get_total_armor(F(Other(LastAttackerId))) > 0
    /\ F(LastAttackerId).current_health > 0
    /\ F(Other(LastAttackerId)).current_health > 0

\* C24: on every hit by an attacker whose weapon effect is LIFESTEAL or
\* VAMPIRIC the heal is applied whatever the effect draw is: the attacker's
\* health becomes min(max_health, health + floor(actual_damage * power)),
\* where health is the attacker's health once reflect damage was taken and
\* actual_damage what the defender lost to the hit; with a weapon effect of
\* any other type a hit whose effect draw is 0.30 or more applies nothing.
C24_LifestealAlwaysOthersOnRoll ==
    (phase = "battle" /\ ~combat_over)
    => \A r_crit \in CritRolls, variance \in Variances, r_effect \in Rolls,
          r_flavor \in CritRolls :
          LET a1 == AfterDoT(Attacker)
              d == Defender
              w == a1.weapon
              damage == HitDamage(a1, r_crit, variance)
              hit == take_damage(d, damage)
              a2 == IF d.armor.present /\ d.armor.effect_type = "reflect"
                    THEN [a1 EXCEPT !.current_health =
                             Max(0, @ - (damage * d.armor.effect_power)
                                           \div 100)]
                    ELSE a1
              ph == HitPhase(a1, d, r_crit, variance, r_effect, r_flavor)
          IN /\ (w.present /\ w.effect_type \in {"lifesteal", "vampiric"})
                => /\ ph.attacker.current_health
                        = Min(a2.max_health,
                              a2.current_health
                                + (hit.actual * w.effect_power) \div 100)
                   /\ ph.defender = hit.fighter
                   /\ HasKind(ph.messages,
                              IF w.effect_type = "lifesteal"
                              THEN "steals" ELSE "drains")
             /\ (/\ w.present
                 /\ w.effect_type \notin {"", "lifesteal", "vampiric"}
                 /\ r_effect >= 30)
                => /\ ph.attacker = a2
                   /\ ph.defender = hit.fighter
                   /\ Len(ph.messages)
                        = 1 + (IF d.armor.present
                                  /\ d.armor.effect_type = "reflect"
                               THEN 1 ELSE 0)

\* the turn of an attacker with a LIFESTEAL or VAMPIRIC weapon that has
\* healed before and is below max_health, against a defender whose armor
\* mitigates the hit
C24_Witness ==
    /\ phase = "battle"
    /\ ~combat_over
    /\ Attacker.weapon.present
    /\ Attacker.weapon.effect_type \in {"lifesteal", "vampiric"}
    /\ HasKind(combat_log, "steals") \/ HasKind(combat_log, "drains")
    /\ Attacker.current_health < Attacker.max_health
    /\ Attacker.current_health > 0
    /\ get_total_armor(Defender) > 0

\* C25: applying LIFESTEAL or VAMPIRIC never lowers the attacker's health:
\* whatever hit the coming turn makes, the attacker's health after the
\* weapon effect is at least its health before it (also when that health
\* is above max_health because of a concoction).
C25_LifestealNeverLowersHealth ==
    (/\ phase = "battle"
     /\ ~combat_over
     /\ Attacker.weapon.present
     /\ Attacker.weapon.effect_type \in {"lifesteal", "vampiric"}
     /\ Attacker.weapon.effect_power >= 0)
    => \A variance \in Variances :
          LET a1 == AfterDoT(Attacker)
              hit == take_damage(Defender, HitDamage(a1, 0, variance))
          IN apply_weapon_effect(a1, hit.fighter, hit.actual, 0)
                 .attacker.current_health >= a1.current_health

\* C26: a fighter whose health reaches 0 inside a turn still has health 0
\* when the turn ends, and the combat is then over: whatever hit the coming
\* turn makes, an attacker brought to 0 by the reflect damage and a
\* defender brought to 0 by the hit are at 0 after the weapon effect, and
\* the check at the end of the turn ends the combat.
C26_DeadStaysDead ==
    (phase = "battle" /\ ~combat_over /\ is_alive(AfterDoT(Attacker)))
    => \A r_crit \in CritRolls, variance \in Variances,
          r_effect \in EffectRolls, r_flavor \in CritRolls :
          LET a1 == AfterDoT(Attacker)
              d == Defender
              damage == HitDamage(a1, r_crit, variance)
              hit == take_damage(d, damage)
              a2 == IF Reflects(d)
                    THEN [a1 EXCEPT !.current_health =
                             Max(0, @ - ReflectDamage(d, damage))]
                    ELSE a1
              ph == HitPhase(a1, d, r_crit, variance, r_effect, r_flavor)
              over == TerminalCheck(Pl(ph.attacker, ph.defender),
                                    En(ph.attacker, ph.defender)).over
          IN /\ a2.current_health = 0
                => (ph.attacker.current_health = 0 /\ over)
             /\ hit.fighter.current_health = 0
                => (ph.defender.current_health = 0 /\ over)

\* C27: when the attacker's weapon effect is REFLECT or SHIELD, applying
\* the weapon effect changes no fighter's health and adds no active effect,
\* whatever armor the defender wears: whatever hit the coming turn makes,
\* both fighters are after the weapon effect as they were before it.
C27_ReflectShieldWeaponIsNoOp ==
    (/\ phase = "battle"
     /\ ~combat_over
     /\ Attacker.weapon.present
     /\ Attacker.weapon.effect_type \in {"reflect", "shield"})
    => \A variance \in Variances :
          LET a1 == AfterDoT(Attacker)
              d == Defender
              damage == HitDamage(a1, 0, variance)
              hit == take_damage(d, damage)
              a2 == IF Reflects(d)
                    THEN [a1 EXCEPT !.current_health =
                             Max(0, @ - ReflectDamage(d, damage))]
                    ELSE a1
              eff == apply_weapon_effect(a2, hit.fighter, hit.actual, 0)
          IN /\ eff.attacker = a2
             /\ eff.defender = hit.fighter

\* C28: when a LIGHTNING weapon effect triggers, the defender takes after
\* the hit a second damage instance of floor(power) through take_damage:
\* its health is lowered by the hit's mitigated damage and then by the
\* mitigated bonus, each floored at 0; and if the defender is at 0 after
\* the bonus, the combat is over when the turn returns.
C28_LightningBonusThroughTakeDamage ==
    [][(/\ phase = "battle"
        /\ ~combat_over
        /\ Attacker.weapon.present
        /\ Attacker.weapon.effect_type = "lightning")
       => LET a == AfterDoT(Attacker)
              d == Defender
              d2 == IF AttackerId = "player" THEN enemy' ELSE player'
              armor == get_total_armor(d)
              bonus == a.weapon.effect_power \div 100
          IN /\ \A variance \in Variances :
                   LET damage == HitDamage(a, 0, variance)
                       h1 == Max(0, d.current_health
                                      - ActualDamage(armor, damage))
                       ph == HitPhase(a, d, 0, variance, 0, 0)
                   IN /\ HasKind(ph.messages, "lightning")
                      /\ ph.defender.current_health
                           = Max(0, h1 - ActualDamage(armor, bonus))
             /\ (HasKind(returned', "lightning") /\ d2.current_health = 0)
                => combat_over']_vars

\* the first turn of a battle in which the hit of the LIGHTNING weapon left
\* the enemy (7 health, base_armor 20) alive, as any first hit does, and
\* the bonus brought it to 0: the combat is over after one turn
C28_Witness ==
    /\ phase = "battle"
    /\ turn = 1
    /\ HasKind(returned, "lightning")
    /\ get_total_armor(enemy) > 0
    /\ enemy.max_health = 7
    /\ enemy.current_health = 0
    /\ combat_over
    /\ player_won

\* the message that tells that effect t was applied, the indexes in the log
\* at which it was applied to the fighter called name, the turns that
\* fighter has taken after index i and the ticks of t logged after index i
AppliedKind(t) ==
    CASE t = "fire" -> "burning"
      [] t = "poison" -> "poisoned"
      [] t = "bleed" -> "bleeding"

Applications(name, t) ==
    {i \in 1..Len(combat_log) : combat_log[i] = Msg(AppliedKind(t), name)}

TurnsAfter(name, i) ==
    Cardinality({j \in (i + 1)..Len(combat_log) :
                    /\ IsActorMessage(combat_log[j])
                    /\ combat_log[j].who = name})

TicksAfter(t, i) ==
    Cardinality({j \in (i + 1)..Len(combat_log) :
                    combat_log[j] = Msg("dot", Title(t))})

\* the tick logged at index j belongs to a turn of the fighter called name:
\* the next attack, miss or death in the log is that fighter's
TickInTurnOf(name, j) ==
    \E k \in (j + 1)..Len(combat_log) :
        /\ IsActorMessage(combat_log[k])
        /\ combat_log[k].who = name
        /\ \A m \in (j + 1)..(k - 1) : ~IsActorMessage(combat_log[m])

\* C29: a weapon DoT effect is added to the defender with the weapon's
\* effect_power and the duration FIRE 3, POISON 5, BLEED 4, and an effect
\* applied once to the enemy has, after n turns of the enemy, ticked
\* min(duration, n) times, each tick inside a turn of the enemy and each
\* taking floor(power) health; it is on the enemy with duration - n turns
\* left while n is below the duration, and gone from then on.
C29_DotDurations ==
    phase = "battle"
    => \A t \in DoTTypes :
          Cardinality(Applications("Enemy", t)) = 1
          => LET i == CHOOSE x \in Applications("Enemy", t) : TRUE
                 n == TurnsAfter("Enemy", i)
                 duration == CASE t = "fire" -> 3
                               [] t = "poison" -> 5
                               [] t = "bleed" -> 4
                 hits == Cardinality({j \in 1..Len(combat_log) :
                                         combat_log[j] = Msg("attack",
                                                             "Player")})
                 hit_loss == ActualDamage(get_total_armor(enemy),
                                          get_total_damage(player))
             IN /\ TicksAfter(t, i) = Min(duration, n)
                /\ \A j \in 1..Len(combat_log) :
                      combat_log[j].kind = "dot"
                      => TickInTurnOf("Enemy", j)
                /\ IF n < duration
                   THEN /\ HasType(enemy.effects, t)
                        /\ LET e == enemy.effects[FirstIndex(enemy.effects, t)]
                           IN /\ e.duration = duration - n
                              /\ e.power = player.weapon.effect_power
                              /\ e.stacks = 1
                   ELSE ~HasType(enemy.effects, t)
                /\ enemy.current_health
                     = enemy.max_health - hits * hit_loss
                         - TicksAfter(t, i)
                             * (player.weapon.effect_power \div 100)

\* a poison applied once to the enemy that has ticked on five turns of the
\* enemy and is gone, after a sixth turn of the enemy without a tick
C29_Witness ==
    /\ phase = "battle"
    /\ Cardinality(Applications("Enemy", "poison")) = 1
    /\ \E i \in Applications("Enemy", "poison") :
          /\ TicksAfter("poison", i) = 5
          /\ TurnsAfter("Enemy", i) = 6
    /\ ~HasType(enemy.effects, "poison")
    /\ enemy.current_health < enemy.max_health - 10
    /\ ~combat_over

\* the indexes in the log at which the fighter called name was frozen
FreezeApplications(name) ==
    {i \in 1..Len(combat_log) : combat_log[i] = Msg("slowed", name)}

\* C30: FREEZE is added to the defender with duration 2 and, if not
\* re-applied, lowers the victim's attack speed on the victim's next 2
\* turns: an enemy that was frozen once and has since taken fewer than 2
\* turns attacks in its coming turn with a speed below its total speed.
C30_FreezeSlowsTwoTurns ==
    (/\ phase = "battle"
     /\ ~combat_over
     /\ AttackerId = "enemy"
     /\ Cardinality(FreezeApplications("Enemy")) = 1)
    => LET i == CHOOSE x \in FreezeApplications("Enemy") : TRUE
           n == TurnsAfter("Enemy", i)
       IN /\ n = 0
             => /\ HasType(enemy.effects, "freeze")
                /\ enemy.effects[FirstIndex(enemy.effects, "freeze")].duration
                     = 2
          /\ n < 2
             => AttackerSpeed(AfterDoT(enemy)) < get_total_speed(enemy) * 100

\* the entries of a DoT type, in the order of the collection, and the sum of
\* a sequence of numbers
IsDoTEntry(e) == e.effect_type \in {"fire", "poison", "bleed"}

DoTEntries(effects) == SelectSeq(effects, IsDoTEntry)

RECURSIVE SeqSum(_)
SeqSum(numbers) ==
    IF numbers = <<>> THEN 0 ELSE Head(numbers) + SeqSum(Tail(numbers))

\* C31: process_turn decrements every active effect's duration by exactly 1
\* and returns as total damage the sum over the FIRE, POISON and BLEED
\* entries of floor(power * stacks), with exactly one message per such
\* entry, in insertion order; the other entries (FREEZE) add no damage and
\* no message, and no fighter's health changes.
C31_ProcessTurnSumsDots ==
    [][ManagerProcessTurn
          => LET dots == DoTEntries(manager)
             IN /\ process_turn(manager).damage
                     = SeqSum([i \in 1..Len(dots) |->
                                 (dots[i].power * dots[i].stacks) \div 100])
                /\ returned'
                     = [i \in 1..Len(dots) |->
                          Msg("dot", Title(dots[i].effect_type))]
                /\ \A i \in 1..Len(manager) :
                      manager[i].duration >= 2
                      => \E j \in 1..Len(manager') :
                            /\ manager'[j].effect_type
                                 = manager[i].effect_type
                            /\ manager'[j].duration
                                 = manager[i].duration - 1
                /\ player' = player
                /\ enemy' = enemy]_vars

\* the process_turn call just made ticked a BLEED with 2 stacks and then a
\* FIRE (two messages, in insertion order) while a FREEZE is active too
C31_Witness ==
    /\ phase = "manager"
    /\ returned = <<Msg("dot", "Bleed"), Msg("dot", "Fire")>>
    /\ Len(manager) = 3
    /\ manager[1].effect_type = "bleed"
    /\ manager[1].stacks = 2
    /\ manager[2].effect_type = "fire"
    /\ manager[3].effect_type = "freeze"

\* C32: every message returned by the attacker's process_turn is appended
\* to the log and returned by execute_turn in that turn, also when the total
\* DoT damage of the tick is 0: the messages of an active turn begin with
\* the messages of the attacker's tick.
C32_DotMessagesAlwaysLogged ==
    [][(phase = "battle" /\ ~combat_over /\ turn' = turn + 1)
       => LET messages == process_turn(Attacker.effects).messages
          IN /\ Len(returned') >= Len(messages)
             /\ SubSeq(returned', 1, Len(messages)) = messages]_vars

\* the place of a message in a turn under the two orders: the reflect
\* message before the attack message, or after it
EffectMessageKinds ==
    {"burning", "poisoned", "bleeding", "steals", "drains", "devastating",
     "lightning", "slowed", "thorns", "shield"}

RankReflectFirst(kind) ==
    CASE kind = "dot" -> 1
      [] kind = "reflect" -> 2
      [] kind \in {"attack", "attack_critical", "miss", "succumbs"} -> 3
      [] kind \in EffectMessageKinds -> 4
      [] kind = "wins" -> 5

RankAttackFirst(kind) ==
    CASE kind = "dot" -> 1
      [] kind \in {"attack", "attack_critical", "miss", "succumbs"} -> 2
      [] kind = "reflect" -> 3
      [] kind \in EffectMessageKinds -> 4
      [] kind = "wins" -> 5

\* C33 as claimed: the messages of one turn are in the order DoT messages,
\* reflect message, attack message, weapon-effect messages, winner message.
C33_ReflectLoggedBeforeAttack ==
    phase = "battle"
    => \A i, j \in 1..Len(returned) :
          i < j => RankReflectFirst(returned[i].kind)
                      <= RankReflectFirst(returned[j].kind)

\* C33 as amended: the messages of one turn are in the order DoT messages,
\* attack message, reflect message, weapon-effect messages, winner message,
\* and they are the end of the log.
C33_AttackLoggedBeforeReflect ==
    phase = "battle"
    => /\ \A i, j \in 1..Len(returned) :
             i < j => RankAttackFirst(returned[i].kind)
                         <= RankAttackFirst(returned[j].kind)
       /\ Len(combat_log) >= Len(returned)
       /\ SubSeq(combat_log, Len(combat_log) - Len(returned) + 1,
                 Len(combat_log)) = returned

\* a turn that logged a DoT message, the attack, the reflect message, a
\* weapon-effect message and the winner message
C33_Witness ==
    /\ phase = "battle"
    /\ combat_over
    /\ Len(returned) = 5
    /\ returned[1].kind = "dot"
    /\ returned[2].kind = "attack"
    /\ returned[3].kind = "reflect"
    /\ returned[4].kind \in EffectMessageKinds
    /\ returned[5].kind = "wins"

C35_MissChangesNothing ==
    [][(phase = "battle" /\ ~combat_over /\ HasKind(returned', "miss"))
       => LET a == AfterDoT(Attacker)
              a2 == IF AttackerId = "player" THEN player' ELSE enemy'
              d2 == IF AttackerId = "player" THEN enemy' ELSE player'
          IN /\ a2 = a
             /\ d2 = Defender
             /\ Cardinality({i \in 1..Len(returned') :
                                returned'[i].kind = "miss"}) = 1
             /\ \A i \in 1..Len(returned') :
                   returned'[i].kind \in {"dot", "miss"}
             /\ Last(returned') = Msg("miss", a.name)
             /\ combat_log' = combat_log \o returned'
             /\ turn' = turn + 1
             /\ combat_over' = (~is_alive(player') \/ ~is_alive(enemy'))]_vars

\* a bleeding player with a weapon effect has just missed an enemy in
\* reflect armor: the turn logged the tick and the miss
C35_Witness ==
    /\ phase = "battle"
    /\ returned = <<Msg("dot", "Bleed"), Msg("miss", "Player")>>
    /\ player.weapon.present
    /\ player.weapon.effect_type # ""
    /\ Reflects(enemy)
    /\ ~combat_over

\* C36: during a battle each fighter's active effects hold at most one
\* entry, whose type is the opponent's weapon effect type and one of FIRE,
\* POISON, BLEED and FREEZE; no other type becomes an active effect, so the
\* SHIELD armor bonus of get_stat_modifiers is 0.
C36_OnlyOpponentWeaponEffect ==
    phase = "battle"
    => \A id \in {"player", "enemy"} :
          LET f == F(id)
              opponent == F(Other(id))
          IN /\ Len(f.effects) <= 1
             /\ \A i \in 1..Len(f.effects) :
                   /\ opponent.weapon.present
                   /\ f.effects[i].effect_type = opponent.weapon.effect_type
                   /\ f.effects[i].effect_type
                        \in {"fire", "poison", "bleed", "freeze"}
             /\ get_stat_modifiers(f.effects).armor_bonus = 0

\* a player whose SHIELD weapon effect has triggered and who bleeds from the
\* enemy's BLEED weapon: the bleed is its only active effect, and the enemy
\* has none
C36_Witness ==
    /\ phase = "battle"
    /\ player.weapon.present
    /\ player.weapon.effect_type = "shield"
    /\ HasKind(combat_log, "shield")
    /\ Len(player.effects) = 1
    /\ player.effects[1].effect_type = "bleed"
    /\ enemy.effects = <<>>

\* C37: add_effect on a type that is already active never changes the
\* existing entry's power or source_name and never shortens its duration;
\* for BLEED and POISON the duration becomes max(current, new) in the call
\* that increments the stacks.  The other entries stay as they are.
C37_AddKeepsPowerAndSource ==
    [][\A effect \in ManagerEffects :
         (ManagerAddEffect(effect) /\ HasType(manager, effect.effect_type))
            => LET i == FirstIndex(manager, effect.effect_type)
               IN /\ Len(manager') = Len(manager)
                  /\ manager'[i].effect_type = manager[i].effect_type
                  /\ manager'[i].power = manager[i].power
                  /\ manager'[i].source_name = manager[i].source_name
                  /\ manager'[i].duration >= manager[i].duration
                  /\ effect.effect_type \in {"bleed", "poison"}
                        => /\ manager'[i].duration
                                = Max(manager[i].duration, effect.duration)
                           /\ manager'[i].stacks = manager[i].stacks + 1
                  /\ \A j \in 1..Len(manager) :
                        j # i => manager'[j] = manager[j]]_vars

\* a BLEED added by "Player" with power 0.75 and duration 1, then added
\* again by "Enemy" with power 2.5 and duration 4: one entry with the first
\* power and source, 2 stacks and the longer duration
C37_Witness ==
    /\ phase = "manager"
    /\ \E i \in 1..Len(manager) :
          /\ manager[i].effect_type = "bleed"
          /\ manager[i].power = 75
          /\ manager[i].source_name = "Player"
          /\ manager[i].stacks = 2
          /\ manager[i].duration = 4

\* C38: an item generate_item builds from a backend stats response carries
\* the response's effect_type and effect_power, and the weapon the player
\* fights with after equipping it has the effect of the response it was
\* built from.
C38_GeneratedItemCarriesEffect ==
    /\ \A k \in 1..Len(in_flight) :
           (in_flight[k].pc # "generate" /\ in_flight[k].ok)
               => /\ in_flight[k].item.effect_type
                         = in_flight[k].stats_data.effect_type
                  /\ in_flight[k].item.effect_power
                         = in_flight[k].stats_data.effect_power
    /\ (phase = "combat" /\ player.weapon.present)
           => \E k \in 1..Len(in_flight) :
                  /\ in_flight[k].pc = "done"
                  /\ player.weapon.damage = in_flight[k].stats_data.damage
                  /\ player.weapon.speed = in_flight[k].stats_data.speed
                  /\ player.weapon.effect_type
                         = in_flight[k].stats_data.effect_type
                  /\ player.weapon.effect_power
                         = in_flight[k].stats_data.effect_power

\* every thread has called back exactly once when it is done and not at
\* all before, and a scene's generating flag is set exactly while a thread
\* it started has not called back
OneCallbackEach ==
    /\ \A k \in 1..Len(in_flight) :
           in_flight[k].callbacks = IF in_flight[k].pc = "done" THEN 1 ELSE 0
    /\ \A i \in 1..Len(generating) : generating[i] <=> Running(i) # {}

\* C39 as stated: at any time at most one generation thread has not called
\* back yet, whichever crafting scene started it; generating is true from
\* the start of a craft to its callback, and every generation calls back
\* exactly once.
C39_OneGenerationInFlight ==
    /\ Cardinality({k \in 1..Len(in_flight) : in_flight[k].pc # "done"}) <= 1
    /\ OneCallbackEach

\* C39 amended: each CraftingScene object has at most one generation thread
\* that has not called back yet: a craft starts only while the object's
\* generating flag is false, the flag is true from the start of the craft
\* to the callback of the background thread, and every generation calls
\* back exactly once (with the default stats when the backend fails), after
\* which the flag is false again.  The thread of a scene that was left for
\* the combat scene keeps running, and the CraftingScene constructed on the
\* way back can start a generation of its own beside it.
C39_OneGenerationPerScene ==
    /\ \A i \in 1..Len(generating) : Cardinality(Running(i)) <= 1
    /\ OneCallbackEach

\* the first scene's first generation has called back with the default
\* stats of a failed request; its second generation and the second scene's
\* generation are both running, and no further craft can start
C39_Witness ==
    /\ Len(generating) = 2
    /\ phase = "crafting"
    /\ Running(1) # {}
    /\ Running(2) # {}
    /\ generating[1] /\ generating[2]
    /\ \E k \in 1..Len(in_flight) :
           /\ in_flight[k].pc = "done"
           /\ in_flight[k].scene = 1
           /\ ~in_flight[k].ok
           /\ in_flight[k].item = create_default_stats

====
